---- MODULE Spec2Model ----
(***************************************************************************)
(* Kagami particle simulation core: the particle pool (ParticleManager),   *)
(* the per-frame physics (PhysicsSystem, forces), the frame orchestration  *)
(* (KagamiExperience.update), the mouse trail, the spatial hash and the    *)
(* constellation (connection graph) builder.                               *)
(*                                                                         *)
(* Numbers.  The program computes in IEEE doubles; the model computes in   *)
(* fixed point with truncation toward zero:                                *)
(*   - lengths, velocities, accelerations, sizes: 1.0 is Unit (100);       *)
(*   - elapsed time and life: 1 tick is 0.05 s, so 0.1 s is 2 ticks and    *)
(*     1 s is OneSecond (20) ticks;                                        *)
(*   - factors (damping, breathing phase, life ratio): 1.0 is 100.         *)
(* Vectors are triples <<x, y, z>>.  An optional value (null, undefined or *)
(* an omitted field) is the empty tuple, a present value v is <<v>>.       *)
(***************************************************************************)
EXTENDS Integers, Sequences, FiniteSets, TLC

\* ------------------------------------------------------------------ bounds

\* Pool capacity (maxParticles of the ParticleManager constructor).
MAX_PARTICLES == 2

\* Frames the model runs (KagamiExperience.frameCount is capped here).
MaxFrames == 2

\* Capacity of the connection buffers (config.maxConnections).
MaxConnections == 2

\* Particles kept in the mouse trail (config.trailLength).
TrailLength == 1

\* Largest count of a 'particle:spawn' event is MAX_PARTICLES + SpawnOver.
SpawnOver == 1

\* Calls of shake and of applyForce the model follows.
MaxShakes == 1
MaxForces == 1

\* Direct calls of ParticleManager.update the model follows.
MaxUpdates == 2

\* Inserts into a SpatialHash between two clears.
MaxInserts == 2

\* Longest particle array handed to a direct ConstellationSystem.update.
MaxInput == 3

\* Calls of on and once on an EventBus the model follows.
MaxListeners == 3

\* Calls of emit from outside a callback the model follows.
MaxEmits == 2

\* Deepest nesting of emits made from inside callbacks.
MaxDepth == 2

\* ------------------------------------------------------- program constants

\* Math.min(deltaTime, 0.1) of ParticleManager.update, in ticks.
DtCap == 2

\* Math.min(deltaTime, 0.1) of PhysicsSystem.update, in ticks.
PhysicsDtCap == 2

\* DEFAULT_CONFIG.connectionDistance of the ConstellationSystem (2.0).
ConnectionDistance == 200

\* DEFAULT_CONFIG.damping of the PhysicsSystem (0.98), in hundredths.
Damping == 98

\* The spring of ParticleManager.update: factor 0.02 and damping 0.95.
PoolSpringPercent == 2
PoolSpringDamping == 95

Unit == ConnectionDistance \div 2
OneSecond == 10 * DtCap

\* Events kept in the history of the EventBus (maxHistory).
maxHistory == 100

\* ----------------------------------------------------------------- numbers

Min(a, b) == IF a <= b THEN a ELSE b
Max(a, b) == IF a >= b THEN a ELSE b
Abs(a) == IF a < 0 THEN -a ELSE a

\* Division truncating toward zero (b > 0): the model's rounding.
TDiv(a, b) == IF a >= 0 THEN a \div b ELSE -((-a) \div b)

\* A value times a factor given in hundredths.
Percent(a, f) == TDiv(a * f, 100)

\* A rate times an elapsed time in ticks: v * dt.
MulDt(v, dt) == TDiv(v * dt, OneSecond)

\* ----------------------------------------------------------------- vectors

Zero3 == <<0, 0, 0>>
VAdd(a, b) == <<a[1] + b[1], a[2] + b[2], a[3] + b[3]>>
VSub(a, b) == <<a[1] - b[1], a[2] - b[2], a[3] - b[3]>>
VPercent(a, f) == <<Percent(a[1], f), Percent(a[2], f), Percent(a[3], f)>>
VMulDt(a, dt) == <<MulDt(a[1], dt), MulDt(a[2], dt), MulDt(a[3], dt)>>
VNeg(a) == <<-a[1], -a[2], -a[3]>>

\* distanceSquared(a, b) of utils/math, in Unit^2.
distanceSquared(a, b) ==
    LET dx == a[1] - b[1]
        dy == a[2] - b[2]
        dz == a[3] - b[3]
    IN  dx * dx + dy * dy + dz * dz

\* ---------------------------------------------------------------- optional

Null == <<>>
Some(v) == <<v>>
IsSome(o) == o # <<>>
\* JavaScript truthiness of an optional number: present and not 0.
Truthy(o) == o # <<>> /\ o[1] # 0

\* ------------------------------------------------------------ particle pool

Ids == 0 .. (MAX_PARTICLES - 1)

\* COLONY_COLORS of core/KagamiExperience.
COLONY_COLORS(colony) ==
    CASE colony = "void" -> "#D4A853"
      [] colony = "spark" -> "#FF7043"
      [] colony = "forge" -> "#FFB74D"
      [] colony = "flow" -> "#4DD0E1"
      [] colony = "nexus" -> "#B388FF"
      [] colony = "beacon" -> "#FFE0B2"
      [] colony = "grove" -> "#81C784"
      [] colony = "crystal" -> "#4FC3F7"

\* Faulty variant of InitialParticle: every slot is pushed with the id 0.
InitialParticleSameId(i) ==
    [id |-> 0, active |-> FALSE, position |-> Zero3, velocity |-> Zero3,
     acceleration |-> Zero3, targetPosition |-> Null, life |-> 0,
     maxLife |-> OneSecond, color |-> COLONY_COLORS("void"), size |-> Unit,
     baseSize |-> Unit, colony |-> Null]

\* The slot the constructor pushes for index i (maxLife 1 is one second).
InitialParticle(i) ==
    [id |-> i, active |-> FALSE, position |-> Zero3, velocity |-> Zero3,
     acceleration |-> Zero3, targetPosition |-> Null, life |-> 0,
     maxLife |-> OneSecond, color |-> COLONY_COLORS("void"), size |-> Unit,
     baseSize |-> Unit, colony |-> Null]

InitialPool == [i \in Ids |-> InitialParticle(i)]

\* Faulty variant of FindInactive: on a full pool it hands out slot 0 again.
FindInactiveOrFirst(pl) ==
    IF \E i \in Ids : ~pl[i].active
    THEN Some(CHOOSE i \in Ids : ~pl[i].active /\ \A j \in Ids : j < i => pl[j].active)
    ELSE Some(0)

\* Faulty variant of FindInactive: the last free slot instead of the first.
FindInactiveLast(pl) ==
    IF \E i \in Ids : ~pl[i].active
    THEN Some(CHOOSE i \in Ids : ~pl[i].active /\ \A j \in Ids : j > i => pl[j].active)
    ELSE Null

\* this.pool.find(p => !p.active): the first inactive slot in pool order.
FindInactive(pl) ==
    IF \E i \in Ids : ~pl[i].active
    THEN Some(CHOOSE i \in Ids : ~pl[i].active /\ \A j \in Ids : j < i => pl[j].active)
    ELSE Null

\* spawn(config) on the pool state st = [pool, activeCount, ret]; rnd holds the
\* values randomInSphere and randomRange return in this call.
SpawnOp(st, config, rnd) ==
    LET slot == FindInactive(st.pool)
    IN  IF slot = Null
        THEN [st EXCEPT !.ret = Null]
        ELSE LET i == slot[1]
                 colony == config.colony
                 baseSize == IF Truthy(config.size) THEN config.size[1] ELSE rnd.size
                 maxLife == IF Truthy(config.life) THEN config.life[1] ELSE rnd.life
                 color == IF IsSome(config.color) THEN config.color[1]
                          ELSE IF IsSome(colony) THEN COLONY_COLORS(colony[1])
                          ELSE COLONY_COLORS("void")
                 p == [id |-> st.pool[i].id,
                       active |-> TRUE,
                       position |-> IF IsSome(config.position)
                                    THEN config.position[1] ELSE rnd.position,
                       velocity |-> IF IsSome(config.velocity)
                                    THEN config.velocity[1] ELSE rnd.velocity,
                       acceleration |-> Zero3,
                       targetPosition |-> config.targetPosition,
                       life |-> maxLife,
                       maxLife |-> maxLife,
                       color |-> color,
                       size |-> baseSize,
                       baseSize |-> baseSize,
                       colony |-> colony]
             IN  [pool |-> [st.pool EXCEPT ![i] = p],
                  activeCount |-> st.activeCount + 1,
                  ret |-> Some(i)]

\* Faulty variant of SpawnLoop: the loop gives up after its first spawn.
SpawnLoopOnce(st, configs, rnds) ==
    IF configs = <<>> THEN st ELSE SpawnOp(st, Head(configs), Head(rnds))

\* The spawn calls of one loop, in order: configs[k] with the draws rnds[k].
RECURSIVE SpawnLoop(_, _, _)
SpawnLoop(st, configs, rnds) ==
    IF configs = <<>> THEN st
    ELSE SpawnLoop(SpawnOp(st, Head(configs), Head(rnds)), Tail(configs), Tail(rnds))

\* Faulty variant of Deactivate: the slot is put back as the constructor made it.
DeactivateResetsSlot(p) == InitialParticle(p.id)

\* Faulty variant of Deactivate: the slot keeps its remaining life.
DeactivateKeepLife(p) == [p EXCEPT !.active = FALSE]

\* deactivate(particle), the slot's part; the caller counts activeCount down.
Deactivate(p) == [p EXCEPT !.active = FALSE, !.life = 0]

\* Faulty variant of ClearAllOp: only the first active particle is released.
ClearFirstOp(st) ==
    IF \E i \in Ids : st.pool[i].active
    THEN LET i == CHOOSE k \in Ids :
                      st.pool[k].active /\ \A j \in Ids : j < k => ~st.pool[j].active
         IN  [st EXCEPT !.pool[i] = Deactivate(st.pool[i]),
                        !.activeCount = st.activeCount - 1]
    ELSE st

\* clearAll(): deactivate every active slot, one activeCount-- for each.
ClearAllOp(st) ==
    [st EXCEPT
       !.pool = [i \in Ids |-> IF st.pool[i].active
                               THEN Deactivate(st.pool[i]) ELSE st.pool[i]],
       !.activeCount = st.activeCount - Cardinality({i \in Ids : st.pool[i].active})]

\* The ids of the active slots from slot i on, in pool order.
RECURSIVE ActiveFrom(_, _)
ActiveFrom(pl, i) ==
    IF i >= MAX_PARTICLES THEN <<>>
    ELSE IF pl[i].active THEN <<i>> \o ActiveFrom(pl, i + 1)
    ELSE ActiveFrom(pl, i + 1)

\* getActive(): pool.filter(p => p.active), the active particles in pool order.
getActive(pl) == [k \in DOMAIN ActiveFrom(pl, 0) |-> pl[ActiveFrom(pl, 0)[k]]]

\* Faulty variant of ClampDt: the raw elapsed time is used.
ClampDtRaw(deltaTime) == deltaTime

\* const dt = Math.min(deltaTime, 0.1) of ParticleManager.update.
ClampDt(deltaTime) == Min(deltaTime, DtCap)

\* Faulty variant of Expired: a particle whose life is exactly 0 lives on.
ExpiredBelowZero(life) == life < 0

\* if (particle.life <= 0) of ParticleManager.update.
Expired(life) == life <= 0

\* Faulty variant of BreathingSize: no fade in, the size starts at full.
BreathingSizeNoFadeIn(baseSize, life, maxLife, breathingPhase) ==
    LET lifeRatio == TDiv(life * 100, maxLife)
        fadeOut == Min((100 - lifeRatio) * 5, 100)
    IN  TDiv(baseSize * (200 - fadeOut) * breathingPhase, 200 * 100)

\* The breathing size of ParticleManager.update:
\* baseSize * fadeIn * (1 - fadeOut * 0.5) * breathingPhase.
BreathingSize(baseSize, life, maxLife, breathingPhase) ==
    LET lifeRatio == TDiv(life * 100, maxLife)
        fadeIn == Min(lifeRatio * 5, 100)
        fadeOut == Min((100 - lifeRatio) * 5, 100)
    IN  TDiv(baseSize * fadeIn * (200 - fadeOut) * breathingPhase, 100 * 200 * 100)

\* Faulty variant of UpdateParticle: the position moves by the old velocity,
\* before the acceleration is applied.
UpdateParticlePositionFirst(p, dt, breathingPhase, reduced) ==
    LET life == p.life - dt
    IN  IF life <= 0 THEN [p EXCEPT !.life = life, !.active = FALSE]
        ELSE LET x1 == IF reduced THEN p.position
                       ELSE VAdd(p.position, VMulDt(p.velocity, dt))
                 v1 == IF reduced THEN p.velocity
                       ELSE VAdd(p.velocity, VMulDt(p.acceleration, dt))
                 v2 == IF ~reduced /\ IsSome(p.targetPosition)
                       THEN VPercent(
                              VAdd(v1, VPercent(VSub(p.targetPosition[1], x1),
                                                PoolSpringPercent)),
                              PoolSpringDamping)
                       ELSE v1
             IN  [p EXCEPT !.life = life, !.velocity = v2, !.position = x1,
                           !.acceleration = IF reduced THEN p.acceleration ELSE Zero3,
                           !.size = BreathingSize(p.baseSize, life, p.maxLife,
                                                  breathingPhase)]

\* The body of the loop of ParticleManager.update for one active particle.
UpdateParticle(p, dt, breathingPhase, reduced) ==
    LET life == p.life - dt
    IN  IF Expired(life) THEN Deactivate([p EXCEPT !.life = life])
        ELSE LET v1 == IF reduced THEN p.velocity
                       ELSE VAdd(p.velocity, VMulDt(p.acceleration, dt))
                 x1 == IF reduced THEN p.position
                       ELSE VAdd(p.position, VMulDt(v1, dt))
                 v2 == IF ~reduced /\ IsSome(p.targetPosition)
                       THEN VPercent(
                              VAdd(v1, VPercent(VSub(p.targetPosition[1], x1),
                                                PoolSpringPercent)),
                              PoolSpringDamping)
                       ELSE v1
             IN  [p EXCEPT !.life = life,
                           !.velocity = v2,
                           !.position = x1,
                           !.acceleration = IF reduced THEN p.acceleration ELSE Zero3,
                           !.size = BreathingSize(p.baseSize, life, p.maxLife,
                                                  breathingPhase)]

\* Faulty variant of UpdateOp: an expired slot is released without activeCount--.
UpdateKeepingCount(st, deltaTime, breathingPhase, reduced) ==
    [st EXCEPT !.pool = [i \in Ids |->
                           IF st.pool[i].active
                           THEN UpdateParticle(st.pool[i], ClampDt(deltaTime),
                                               breathingPhase, reduced)
                           ELSE st.pool[i]]]

\* ParticleManager.update(deltaTime, breathingPhase) on st = [pool, activeCount, ret].
UpdateOp(st, deltaTime, breathingPhase, reduced) ==
    LET dt == ClampDt(deltaTime)
        next == [i \in Ids |-> IF st.pool[i].active
                               THEN UpdateParticle(st.pool[i], dt, breathingPhase, reduced)
                               ELSE st.pool[i]]
        gone == {i \in Ids : st.pool[i].active /\ ~next[i].active}
    IN  [st EXCEPT !.pool = next, !.activeCount = st.activeCount - Cardinality(gone)]

\* applyForce(force): add force to the accumulator of every active particle.
ApplyForceOp(pl, force) ==
    [i \in Ids |-> IF pl[i].active
                   THEN [pl[i] EXCEPT !.acceleration = VAdd(pl[i].acceleration, force)]
                   ELSE pl[i]]

\* ------------------------------------------------------------------ forces

\* Math.sqrt, rounded down, by Newton's iteration from above.
RECURSIVE SqrtDown(_, _)
SqrtDown(n, r) ==
    IF r * r <= n THEN r ELSE SqrtDown(n, (r + n \div r) \div 2)

Sqrt(n) == IF n <= 0 THEN 0 ELSE SqrtDown(n, Min(n, 46340))

\* Vector3.length().
Length(v) == Sqrt(v[1] * v[1] + v[2] * v[2] + v[3] * v[3])

\* v.normalize().multiplyScalar(m); normalize leaves the zero vector as it is.
NormalizeTimes(v, m) ==
    LET len == Length(v)
    IN  IF len = 0 THEN Zero3
        ELSE <<TDiv(v[1] * m, len), TDiv(v[2] * m, len), TDiv(v[3] * m, len)>>

\* clamp(value, min, max) of utils/math.
clamp(value, lo, hi) == Max(lo, Min(hi, value))

\* The forces are computed on a grid of unit steps per 1.0: Unit for the
\* simulation, FineUnit where distances below 0.001 have to be told apart.
FineUnit == 20 * Unit

\* Faulty variant of BelowEpsilonAt: only the distance 0 is caught.
ExactlyZeroAt(unit, distance) == distance = 0

\* distance < 0.001, for a distance on the grid of unit.
BelowEpsilonAt(unit, distance) == distance * 1000 < unit

\* calculateSpringForce(position, target, velocity, stiffness, damping), the two
\* coefficients in hundredths.
calculateSpringForce(position, target, velocity, stiffness, damping) ==
    VAdd(VPercent(VSub(position, target), -stiffness), VPercent(velocity, -damping))

\* calculateMagneticForce on the grid of unit.
MagneticForceAt(unit, position, attractor, strength, minDistance, maxDistance) ==
    LET direction == VSub(attractor, position)
        distance == clamp(Length(direction), minDistance, maxDistance)
    IN  IF BelowEpsilonAt(unit, distance) THEN Zero3
        ELSE NormalizeTimes(direction, TDiv(strength * unit * unit, distance * distance))

\* calculateMagneticForce(position, attractor, strength, minDistance, maxDistance).
calculateMagneticForce(position, attractor, strength, minDistance, maxDistance) ==
    MagneticForceAt(Unit, position, attractor, strength, minDistance, maxDistance)

\* Faulty variant of GravityForceAt: 'quadratic' divides by the distance once.
GravityForceNoSquareAt(unit, position, center, strength, falloffType) ==
    LET direction == VSub(center, position)
        distance == Length(direction)
    IN  IF distance * 1000 < unit THEN Zero3
        ELSE NormalizeTimes(direction,
               CASE falloffType = "linear" -> TDiv(strength * unit, distance)
                 [] falloffType = "quadratic" -> TDiv(strength * unit, distance)
                 [] OTHER -> strength)

\* calculateGravityForce on the grid of unit.
GravityForceAt(unit, position, center, strength, falloffType) ==
    LET direction == VSub(center, position)
        distance == Length(direction)
    IN  IF BelowEpsilonAt(unit, distance) THEN Zero3
        ELSE NormalizeTimes(direction,
               CASE falloffType = "linear" -> TDiv(strength * unit, distance)
                 [] falloffType = "quadratic" ->
                      TDiv(strength * unit * unit, distance * distance)
                 [] OTHER -> strength)

\* calculateGravityForce(position, center, strength, falloffType).
calculateGravityForce(position, center, strength, falloffType) ==
    GravityForceAt(Unit, position, center, strength, falloffType)

\* The stand-in for Math.sin(..) * Math.cos(..): a fixed wave with values -1, 0, 1.
Wave(n) == (n % 3) - 1

\* calculateTurbulenceForce(position, time, strength, frequency): a deterministic
\* function of position and time, each component within [-strength, strength].
calculateTurbulenceForce(position, time, strength, frequency) ==
    <<strength * Wave(TDiv(Percent(position[1], frequency), Unit) + time),
      strength * Wave(TDiv(Percent(position[2], frequency), Unit) + time),
      strength * Wave(TDiv(Percent(position[3], frequency), Unit) + time)>>

\* One axis of calculateBoundaryForce.
BoundaryAxis(x, lo, hi, strength, softness) ==
    IF x < lo + softness THEN TDiv(strength * (softness - (x - lo)), softness)
    ELSE IF x > hi - softness THEN -TDiv(strength * (softness - (hi - x)), softness)
    ELSE 0

\* calculateBoundaryForce(position, bounds, strength, softness).
calculateBoundaryForce(position, bounds, strength, softness) ==
    <<BoundaryAxis(position[1], bounds.min[1], bounds.max[1], strength, softness),
      BoundaryAxis(position[2], bounds.min[2], bounds.max[2], strength, softness),
      BoundaryAxis(position[3], bounds.min[3], bounds.max[3], strength, softness)>>

\* ----------------------------------------------------------- physics system

\* DEFAULT_CONFIG of the PhysicsSystem.
PhysicsDefaultConfig ==
    [enabled |-> TRUE, magneticCursor |-> TRUE, magneticStrength |-> Unit \div 2,
     magneticRadius |-> 3 * Unit, globalGravity |-> <<0, -1, 0>>, damping |-> Damping,
     bounds |-> [min |-> <<-10 * Unit, -5 * Unit, -10 * Unit>>,
                 max |-> <<10 * Unit, 10 * Unit, 10 * Unit>>],
     boundaryStrength |-> Unit \div 2]

\* The PhysicsSystem after its constructor; reduced is prefers-reduced-motion.
InitialPhysics(reduced) ==
    [config |-> [PhysicsDefaultConfig EXCEPT !.enabled = ~reduced],
     gravityWells |-> <<>>,
     cursorPosition |-> <<0, (16 * Unit) \div 10, -3 * Unit>>,
     cursorActive |-> FALSE, cursorRepel |-> FALSE, time |-> 0]

\* Faulty variant of WellsForce: a particle at the radius is taken as inside.
RECURSIVE WellsForceAtRadius(_, _)
WellsForceAtRadius(position, wells) ==
    IF wells = <<>> THEN Zero3
    ELSE LET well == Head(wells)
             rest == WellsForceAtRadius(position, Tail(wells))
         IN  IF well.active /\ Length(VSub(position, well.position)) <= well.radius
             THEN VAdd(calculateGravityForce(position, well.position, well.strength,
                                             well.falloff), rest)
             ELSE rest

\* The gravity-well loop of PhysicsSystem.update for one particle.
RECURSIVE WellsForce(_, _)
WellsForce(position, wells) ==
    IF wells = <<>> THEN Zero3
    ELSE LET well == Head(wells)
             rest == WellsForce(position, Tail(wells))
         IN  IF well.active /\ Length(VSub(position, well.position)) < well.radius
             THEN VAdd(calculateGravityForce(position, well.position, well.strength,
                                             well.falloff), rest)
             ELSE rest

\* Faulty variant of CursorForce: cursorRepel is not looked at.
CursorForceAlwaysAttracts(ph, position) ==
    IF ph.config.magneticCursor /\ ph.cursorActive
       /\ Length(VSub(position, ph.cursorPosition)) < ph.config.magneticRadius
    THEN calculateMagneticForce(position, ph.cursorPosition, ph.config.magneticStrength,
                                Unit \div 5, ph.config.magneticRadius)
    ELSE Zero3

\* The magnetic cursor's part of totalForce in PhysicsSystem.update.
CursorForce(ph, position) ==
    IF ph.config.magneticCursor /\ ph.cursorActive
       /\ Length(VSub(position, ph.cursorPosition)) < ph.config.magneticRadius
    THEN calculateMagneticForce(position, ph.cursorPosition,
           IF ph.cursorRepel THEN -ph.config.magneticStrength
           ELSE ph.config.magneticStrength,
           Unit \div 5, ph.config.magneticRadius)
    ELSE Zero3

\* totalForce of PhysicsSystem.update for particle p; time is this.time after the
\* frame's increment.
TotalForce(ph, p, time) ==
    VAdd(ph.config.globalGravity,
    VAdd(CursorForce(ph, p.position),
    VAdd(WellsForce(p.position, ph.gravityWells),
    VAdd(IF IsSome(p.targetPosition)
         THEN calculateSpringForce(p.position, p.targetPosition[1], p.velocity, 10, 50)
         ELSE Zero3,
    VAdd(calculateBoundaryForce(p.position, ph.config.bounds,
                                ph.config.boundaryStrength, Unit),
         calculateTurbulenceForce(p.position, time, 1, 50))))))

\* Faulty variant of PhysicsCappedDelta: the raw elapsed time is used.
PhysicsRawDelta(deltaTime) == deltaTime

\* const cappedDelta = Math.min(deltaTime, 0.1) of PhysicsSystem.update.
PhysicsCappedDelta(deltaTime) == Min(deltaTime, PhysicsDtCap)

\* Faulty variant of PhysicsRuns: config.enabled is not looked at.
PhysicsRunsWhenDisabled(ph, reduced) == ~reduced

\* if (!this.config.enabled || this.prefersReducedMotion) return;
PhysicsRuns(ph, reduced) == ph.config.enabled /\ ~reduced

\* Faulty variant of PhysicsPool: the accumulator is set to the frame's force,
\* what it held is dropped.
PhysicsPoolResetFirst(ph, pl, deltaTime, reduced) ==
    IF ~(ph.config.enabled /\ ~reduced) THEN pl
    ELSE [i \in Ids |->
            IF pl[i].active
            THEN [pl[i] EXCEPT
                    !.acceleration = TotalForce(ph, pl[i],
                                                ph.time + Min(deltaTime, PhysicsDtCap)),
                    !.velocity = VPercent(pl[i].velocity, ph.config.damping)]
            ELSE pl[i]]

\* The particles of PhysicsSystem.update(deltaTime): force into the accumulator,
\* damping onto the velocity, for the particles getActive() returns.
PhysicsPool(ph, pl, deltaTime, reduced) ==
    IF ~PhysicsRuns(ph, reduced) THEN pl
    ELSE LET time == ph.time + PhysicsCappedDelta(deltaTime)
         IN  [i \in Ids |->
                IF pl[i].active
                THEN [pl[i] EXCEPT
                        !.acceleration = VAdd(pl[i].acceleration,
                                              TotalForce(ph, pl[i], time)),
                        !.velocity = VPercent(pl[i].velocity, ph.config.damping)]
                ELSE pl[i]]

\* this.time of PhysicsSystem.update(deltaTime).
PhysicsTime(ph, deltaTime, reduced) ==
    IF ~PhysicsRuns(ph, reduced) THEN ph.time
    ELSE ph.time + PhysicsCappedDelta(deltaTime)

\* Faulty variant of PhysicsUpdateOp: the wells found inactive are dropped from
\* the map.
PhysicsUpdateDroppingInactive(ph, deltaTime, reduced) ==
    IF ~(ph.config.enabled /\ ~reduced) THEN ph
    ELSE [ph EXCEPT !.time = ph.time + Min(deltaTime, PhysicsDtCap),
                    !.gravityWells = SelectSeq(@, LAMBDA well : well.active)]

\* The PhysicsSystem after update(deltaTime): this.time has advanced; the cursor,
\* the configuration and the wells are read only.
PhysicsUpdateOp(ph, deltaTime, reduced) ==
    [ph EXCEPT !.time = PhysicsTime(ph, deltaTime, reduced)]

\* Faulty variant of ShakePool: every slot of the pool is shaken, active or not.
ShakePoolAllSlots(pl, deltas) ==
    [i \in Ids |-> [pl[i] EXCEPT !.velocity = VAdd(pl[i].velocity, deltas[i])]]

\* shake(intensity): deltas[i] is the random force drawn for slot i.
ShakePool(pl, deltas) ==
    [i \in Ids |-> IF pl[i].active
                   THEN [pl[i] EXCEPT !.velocity = VAdd(pl[i].velocity, deltas[i])]
                   ELSE pl[i]]

\* this.gravityWells is a Map from id to well, modelled by the sequence of its
\* values in insertion order.

\* Map.delete(id).
RECURSIVE MapDelete(_, _)
MapDelete(wells, id) ==
    IF wells = <<>> THEN <<>>
    ELSE IF Head(wells).id = id THEN Tail(wells)
    ELSE <<Head(wells)>> \o MapDelete(Tail(wells), id)

\* Map.set(well.id, well): an id already present keeps its place.
MapSet(wells, well) ==
    IF \E k \in DOMAIN wells : wells[k].id = well.id
    THEN [k \in DOMAIN wells |-> IF wells[k].id = well.id THEN well ELSE wells[k]]
    ELSE Append(wells, well)

\* addGravityWell(well): the well is stored as {...well, active: true}.
AddGravityWellOp(ph, well) ==
    [ph EXCEPT !.gravityWells =
        MapSet(@, [id |-> well.id, position |-> well.position,
                   strength |-> well.strength, radius |-> well.radius,
                   falloff |-> well.falloff, active |-> TRUE])]

\* removeGravityWell(id).
RemoveGravityWellOp(ph, id) == [ph EXCEPT !.gravityWells = MapDelete(@, id)]

\* setGravityWellActive(id, active): nothing for an id that is not in the map.
SetGravityWellActiveOp(ph, id, active) ==
    [ph EXCEPT !.gravityWells =
        [k \in DOMAIN @ |-> IF @[k].id = id THEN [@[k] EXCEPT !.active = active]
                            ELSE @[k]]]

\* clearGravityWells().
ClearGravityWellsOp(ph) == [ph EXCEPT !.gravityWells = <<>>]

\* The six wells of chapter 7: `crystal-${i}` at the i-th vertex.
CrystalWells ==
    LET at == <<<<0, 3 * Unit, -3 * Unit>>, <<0, 0, -3 * Unit>>,
                <<2 * Unit, (3 * Unit) \div 2, -2 * Unit>>,
                <<-2 * Unit, (3 * Unit) \div 2, -2 * Unit>>,
                <<0, (3 * Unit) \div 2, -Unit>>, <<0, (3 * Unit) \div 2, -5 * Unit>>>>
        ids == <<"crystal-0", "crystal-1", "crystal-2", "crystal-3", "crystal-4",
                 "crystal-5">>
    IN  [i \in DOMAIN at |-> [id |-> ids[i], position |-> at[i], strength |-> 3,
                              radius |-> 2 * Unit, falloff |-> "quadratic"]]

\* vertices.forEach((pos, i) => this.addGravityWell(..)), from the i-th on.
RECURSIVE AddCrystals(_, _)
AddCrystals(ph, i) ==
    IF i > Len(CrystalWells) THEN ph
    ELSE AddCrystals(AddGravityWellOp(ph, CrystalWells[i]), i + 1)

\* configureForChapter(chapterIndex).
ConfigureForChapterOp(ph, chapterIndex) ==
    LET cleared == ClearGravityWellsOp(ph)
        center == <<0, (16 * Unit) \div 10, -3 * Unit>>
    IN  CASE chapterIndex = 0 ->
               AddGravityWellOp(cleared, [id |-> "void-center", position |-> center,
                                          strength |-> 2, radius |-> 5 * Unit,
                                          falloff |-> "quadratic"])
          [] chapterIndex = 2 -> [cleared EXCEPT !.config.globalGravity = <<0, 2, 0>>]
          [] chapterIndex = 3 ->
               AddGravityWellOp(cleared, [id |-> "flow-vortex", position |-> center,
                                          strength |-> 1, radius |-> 4 * Unit,
                                          falloff |-> "linear"])
          [] chapterIndex = 7 -> AddCrystals(cleared, 1)
          [] OTHER -> [cleared EXCEPT !.config.globalGravity = <<0, -1, 0>>]

\* Faulty variant of SetEnabledOp: the preference is not looked at.
SetEnabledUnguarded(ph, enabled, reduced) == [ph EXCEPT !.config.enabled = enabled]

\* setEnabled(enabled); reduced is prefers-reduced-motion.
SetEnabledOp(ph, enabled, reduced) ==
    IF reduced /\ enabled THEN ph ELSE [ph EXCEPT !.config.enabled = enabled]

\* The handler of 'physics:magnetic': cursorActive = payload.active and
\* cursorRepel = payload.repel || false, repel being optional.
OnPhysicsMagneticOp(ph, active, repel) ==
    [ph EXCEPT !.cursorActive = active,
               !.cursorRepel = IF IsSome(repel) THEN repel[1] ELSE FALSE]

\* The keydown (down) and keyup listeners for the key 'Shift'.
ShiftKeyOp(ph, down) == [ph EXCEPT !.cursorRepel = down]

\* ------------------------------------------------------------- spatial hash

\* A cell key `${cx},${cy},${cz}` is modelled by the triple <<cx, cy, cz>>: the
\* string is one-to-one on integer triples.  cells maps the keys in use to the
\* ids pushed into each cell, in insertion order.

\* new SpatialHash(cellSize).
NewSpatialHash(cellSize) == [cellSize |-> cellSize, cells |-> <<>>]

\* Math.floor(x / this.cellSize).
CellOf(x, cellSize) == x \div cellSize

\* getKey(x, y, z).
getKey(h, position) ==
    <<CellOf(position[1], h.cellSize), CellOf(position[2], h.cellSize),
      CellOf(position[3], h.cellSize)>>

\* Faulty variant of HashClear: the cells are kept.
HashKeepCells(h) == h

\* clear().
HashClear(h) == [h EXCEPT !.cells = <<>>]

\* insert(id, position).
HashInsert(h, id, position) ==
    LET key == getKey(h, position)
    IN  IF key \in DOMAIN h.cells
        THEN [h EXCEPT !.cells[key] = Append(@, id)]
        ELSE [h EXCEPT !.cells = [k \in DOMAIN h.cells \cup {key} |->
                                    IF k = key THEN <<id>> ELSE h.cells[k]]]

\* The n-th offset (dx, dy, dz) of getNearby's three nested loops, in loop order.
NeighborOffset(n) ==
    <<((n - 1) \div 9) - 1, (((n - 1) \div 3) % 3) - 1, ((n - 1) % 3) - 1>>

\* Faulty variant of NearbyFrom: the cells left of the query cell are skipped.
RECURSIVE NearbyFromOwnCell(_, _, _)
NearbyFromOwnCell(h, c, n) ==
    IF n > 27 THEN <<>>
    ELSE LET key == VAdd(c, NeighborOffset(n))
         IN  (IF key \in DOMAIN h.cells /\ NeighborOffset(n)[1] >= 0
              THEN h.cells[key] ELSE <<>>)
             \o NearbyFromOwnCell(h, c, n + 1)

\* The loops of getNearby from the n-th offset on, around the cell c.
RECURSIVE NearbyFrom(_, _, _)
NearbyFrom(h, c, n) ==
    IF n > 27 THEN <<>>
    ELSE LET key == VAdd(c, NeighborOffset(n))
         IN  (IF key \in DOMAIN h.cells THEN h.cells[key] ELSE <<>>)
             \o NearbyFrom(h, c, n + 1)

\* getNearby(position).
getNearby(h, position) == NearbyFrom(h, getKey(h, position), 1)

\* The hash after the insert loop of update over the array particles.
RECURSIVE HashInsertAll(_, _)
HashInsertAll(h, particles) ==
    IF particles = <<>> THEN h
    ELSE HashInsertAll(HashInsert(h, Head(particles).id, Head(particles).position),
                       Tail(particles))

\* ------------------------------------------------------- constellation system

\* One line of the pre-allocated buffers: six floats of positions (the two end
\* points) and the colour written to both vertices, kept as the two blended
\* colours and the opacity that scales their midpoint.
EmptyLine == [a |-> Zero3, b |-> Zero3, colorA |-> "", colorB |-> "", opacity |-> 0]

\* The ConstellationSystem after its constructor.  emitted is the list of the
\* addConnection calls of the latest update, as pairs of particle ids.
InitialConstellation(connectionDistance, maxConnections) ==
    [connectionDistance |-> connectionDistance,
     maxConnections |-> maxConnections,
     fadeWithDistance |-> TRUE,
     connectionCount |-> 0,
     lines |-> [k \in 1 .. maxConnections |-> EmptyLine],
     drawRange |-> 0,
     emitted |-> <<>>]

\* lerp(a, b, t) of utils/math, t in hundredths.
lerp(a, b, t) == a + Percent(b - a, t)

\* The opacity addConnection computes, in hundredths.
ConnectionOpacity(cs, distance, breathingPhase) ==
    LET linear == 100 - TDiv(distance * 100, cs.connectionDistance)
        faded == IF cs.fadeWithDistance THEN Percent(linear, linear) ELSE 100
    IN  Percent(faded, lerp(50, 100, breathingPhase))

\* addConnection(a, b, distance, breathingPhase).
addConnection(cs, a, b, distance, breathingPhase) ==
    [cs EXCEPT
       !.lines[cs.connectionCount + 1] =
           [a |-> a.position, b |-> b.position, colorA |-> a.color,
            colorB |-> b.color,
            opacity |-> ConnectionOpacity(cs, distance, breathingPhase)],
       !.connectionCount = cs.connectionCount + 1,
       !.emitted = Append(cs.emitted, <<a.id, b.id>>)]

\* pairKey: the smaller id first.
PairKey(i, j) == IF i < j THEN <<i, j>> ELSE <<j, i>>

SeqRange(q) == {q[k] : k \in DOMAIN q}

\* Faulty variant of WithinThreshold: the distance is compared with the
\* threshold itself, not with its square.
WithinThresholdUnsquared(distSq, connectionDistance) == distSq <= connectionDistance

\* The distance check of update: !(distSq > distanceSquaredThreshold).
WithinThreshold(distSq, connectionDistance) ==
    ~(distSq > connectionDistance * connectionDistance)

\* Faulty variant of AtCapacity: one connection more than the buffers hold is let
\* through.
BeyondCapacity(cs) == cs.connectionCount > cs.maxConnections

\* The test of update before addConnection and after the inner loop:
\* connectionCount >= maxConnections.
AtCapacity(cs) == cs.connectionCount >= cs.maxConnections

\* particles.find(p => p.id === id): Null or Some(first match).
RECURSIVE Find(_, _)
Find(particles, id) ==
    IF particles = <<>> THEN Null
    ELSE IF Head(particles).id = id THEN Some(Head(particles))
    ELSE Find(Tail(particles), id)

\* The inner loop of update for the particle p over the rest of nearbyIds.
\* w = [cs, checked, stop]: the system, the checked pair keys, and whether the
\* loop left by break.
RECURSIVE ConnectNearby(_, _, _, _, _)
ConnectNearby(w, particles, p, nearbyIds, breathingPhase) ==
    IF nearbyIds = <<>> THEN w
    ELSE LET otherId == Head(nearbyIds)
             rest == Tail(nearbyIds)
             key == PairKey(p.id, otherId)
             seen == [w EXCEPT !.checked = @ \cup {key}]
             other == Find(particles, otherId)
             distSq == distanceSquared(p.position, other[1].position)
         IN  IF otherId = p.id
             THEN ConnectNearby(w, particles, p, rest, breathingPhase)
             ELSE IF key \in w.checked
             THEN ConnectNearby(w, particles, p, rest, breathingPhase)
             ELSE IF ~IsSome(other)
             THEN ConnectNearby(seen, particles, p, rest, breathingPhase)
             ELSE IF ~WithinThreshold(distSq, w.cs.connectionDistance)
             THEN ConnectNearby(seen, particles, p, rest, breathingPhase)
             ELSE IF AtCapacity(w.cs)
             THEN [seen EXCEPT !.stop = TRUE]
             ELSE ConnectNearby(
                    [seen EXCEPT !.cs = addConnection(w.cs, p, other[1], Sqrt(distSq),
                                                      breathingPhase)],
                    particles, p, rest, breathingPhase)

\* Faulty variant of ConnectAll: the particles are taken from the last to the
\* first.
RECURSIVE ConnectAllLastFirst(_, _, _, _, _)
ConnectAllLastFirst(w, h, particles, todo, breathingPhase) ==
    IF todo = <<>> THEN w
    ELSE LET p == todo[Len(todo)]
             w1 == ConnectNearby([w EXCEPT !.stop = FALSE], particles, p,
                                 getNearby(h, p.position), breathingPhase)
         IN  IF w1.cs.connectionCount >= w1.cs.maxConnections THEN w1
             ELSE ConnectAllLastFirst(w1, h, particles, SubSeq(todo, 1, Len(todo) - 1),
                                      breathingPhase)

\* The outer loop of update over the rest (todo) of the particles.
RECURSIVE ConnectAll(_, _, _, _, _)
ConnectAll(w, h, particles, todo, breathingPhase) ==
    IF todo = <<>> THEN w
    ELSE LET p == Head(todo)
             w1 == ConnectNearby([w EXCEPT !.stop = FALSE], particles, p,
                                 getNearby(h, p.position), breathingPhase)
         IN  IF AtCapacity(w1.cs) THEN w1
             ELSE ConnectAll(w1, h, particles, Tail(todo), breathingPhase)

\* update(particles, breathingPhase).  The result is [cs, hash].
ConstellationUpdateOp(cs, h, particles, breathingPhase, reduced) ==
    LET cs0 == [cs EXCEPT !.connectionCount = 0, !.emitted = <<>>]
    IN  IF reduced THEN [cs |-> [cs0 EXCEPT !.drawRange = 0], hash |-> h]
        ELSE LET h1 == HashInsertAll(HashClear(h), particles)
                 w == ConnectAll([cs |-> cs0, checked |-> {}, stop |-> FALSE],
                                 h1, particles, particles, breathingPhase)
             IN  [cs |-> [w.cs EXCEPT !.drawRange = w.cs.connectionCount * 2],
                  hash |-> h1]

\* Faulty variant of SetConnectionDistanceOp: the hash with the old cell size is
\* kept.
SetConnectionDistanceKeepingHash(cs, distance) ==
    [cs |-> [cs EXCEPT !.connectionDistance = distance],
     hash |-> NewSpatialHash(cs.connectionDistance)]

\* setConnectionDistance(distance).
SetConnectionDistanceOp(cs, distance) ==
    [cs |-> [cs EXCEPT !.connectionDistance = distance],
     hash |-> NewSpatialHash(distance)]

\* ---------------------------------------------------------------- mouse trail

\* DEFAULT_CONFIG of the MouseTrail: spawnInterval 50 ms is one tick, particleLife
\* 2 s, driftSpeed 0.02; trailLength is the bound TrailLength.
TrailDefaultConfig ==
    [enabled |-> TRUE, spawnInterval |-> 1, trailLength |-> TrailLength,
     particleLife |-> 2 * OneSecond, driftSpeed |-> 2, colorCycle |-> TRUE]

\* Object.values(COLONY_COLORS), in declaration order.
ColonyColorList ==
    <<COLONY_COLORS("void"), COLONY_COLORS("spark"), COLONY_COLORS("forge"),
      COLONY_COLORS("flow"), COLONY_COLORS("nexus"), COLONY_COLORS("beacon"),
      COLONY_COLORS("grove"), COLONY_COLORS("crystal")>>

\* The MouseTrail after its constructor.  mouseWorld is where the ray through
\* mousePosition meets the plane in front of the camera.
InitialTrail(reduced) ==
    [config |-> [TrailDefaultConfig EXCEPT !.enabled = ~reduced],
     isMouseInView |-> FALSE, mouseWorld |-> Zero3, worldPosition |-> Zero3,
     lastSpawnTime |-> 0, trailParticleIds |-> <<>>, colorPhase |-> 0]

\* A config with every field omitted.
NoConfig ==
    [position |-> Null, velocity |-> Null, color |-> Null, size |-> Null,
     life |-> Null, colony |-> Null, targetPosition |-> Null]

\* MouseTrail.update(time): the result is [trail, st], st the pool state.  rnd
\* holds the drift velocity and the size drawn for the spawn.
TrailUpdateOp(tr, st, time, rnd) ==
    IF ~tr.config.enabled \/ ~tr.isMouseInView THEN [trail |-> tr, st |-> st]
    ELSE LET located == [tr EXCEPT !.worldPosition = tr.mouseWorld]
         IN  IF time - tr.lastSpawnTime < tr.config.spawnInterval
             THEN [trail |-> located, st |-> st]
             ELSE LET kept == IF Len(tr.trailParticleIds) >= tr.config.trailLength
                              THEN Tail(tr.trailParticleIds)
                              ELSE tr.trailParticleIds
                      colorPhase == IF tr.config.colorCycle THEN tr.colorPhase + 5
                                    ELSE tr.colorPhase
                      color == IF tr.config.colorCycle
                               THEN ColonyColorList[((colorPhase \div 100) % 8) + 1]
                               ELSE COLONY_COLORS("void")
                      config == [NoConfig EXCEPT
                                   !.position = Some(located.worldPosition),
                                   !.velocity = Some(rnd.velocity),
                                   !.life = Some(tr.config.particleLife),
                                   !.size = Some(rnd.size),
                                   !.color = Some(color)]
                      st1 == SpawnOp(st, config, rnd)
                  IN  [trail |-> [located EXCEPT
                                    !.trailParticleIds =
                                        IF IsSome(st1.ret) THEN Append(kept, st1.ret[1])
                                        ELSE kept,
                                    !.colorPhase = colorPhase,
                                    !.lastSpawnTime = time],
                       st |-> st1]

\* ----------------------------------------------------------------- the frame

\* Faulty variant of AfterStep: the constellation is updated before the particles.
AfterStepConnectFirst(s) ==
    CASE s = "idle" -> "trail"
      [] s = "trail" -> "physics"
      [] s = "physics" -> "cursor"
      [] s = "cursor" -> "constellation"
      [] s = "constellation" -> "particles"
      [] s = "particles" -> "render"
      [] s = "render" -> "idle"

\* The statements of the animation-loop callback and of KagamiExperience.update,
\* in program order: the step that follows step s.
AfterStep(s) ==
    CASE s = "idle" -> "trail"
      [] s = "trail" -> "physics"
      [] s = "physics" -> "cursor"
      [] s = "cursor" -> "particles"
      [] s = "particles" -> "constellation"
      [] s = "constellation" -> "render"
      [] s = "render" -> "idle"

\* ------------------------------------------------------------------- state

VARIABLES
    pool,           \* ParticleManager.pool: slot id -> particle
    activeCount,    \* ParticleManager.activeCount
    ret,            \* what the latest spawn() call returned: Null or Some(id)
    age,            \* history: per slot, the clamped time applied since its spawn
    reducedMotion,  \* matchMedia('(prefers-reduced-motion: reduce)').matches
    physics,        \* the PhysicsSystem
    trail,          \* the MouseTrail
    frame,          \* the animation loop: pc, delta, phase, time, frameCount, and
                    \* done, the calls of update() finished in the running callback
    constellation,  \* the ConstellationSystem
    spatialHash,    \* the SpatialHash of the ConstellationSystem
    calls,          \* history: how often shake, applyForce and (directly) update
                    \* were called
    inserted,       \* history: the (id, position) pairs inserted since the last clear
    nearby,         \* what the latest direct getNearby call was asked and returned
    input           \* the particle array, and the connection distance in force, of
                    \* the latest direct constellation update; the arguments and
                    \* the result of a direct force call; the EventBus

vars == <<pool, activeCount, ret, age, reducedMotion, physics, trail, frame,
          constellation, spatialHash, calls, inserted, nearby, input>>

\* The variables only the direct calls on the hash and the constellation touch.
probes == <<inserted, nearby, input>>

\* ------------------------------------------------------------------ inputs

\* Points used for positions: the origin, one unit along x, a point 1.5 units off
\* along -x and y, and the default origin of burst (0, 1.6, -2).
Origin == Zero3
OneAlongX == <<Unit, 0, 0>>
FarPoint == <<-3 * Unit, 2 * Unit, 0>>
BurstOrigin == <<0, (16 * Unit) \div 10, -2 * Unit>>

\* What randomInSphere(3) and randomRange return in a default spawn.
SpawnDraws ==
    [position : {FarPoint}, velocity : {<<1, 0, -1>>}, size : {Unit \div 2},
     life : {5 * OneSecond}]

\* What the random calls of burst return: a unit direction, the speed factor
\* (0.05 to 0.15), a life of 1 to 3 seconds and a size of 0.8 to 1.5.
BurstDraws ==
    [direction : {<<0, -Unit, 0>>}, speed : {15}, life : {OneSecond},
     size : {Unit}]

\* What the random calls of MouseTrail.update return.
TrailDraws ==
    [position : {Origin}, velocity : {<<2, 4, -2>>}, size : {Unit \div 2},
     life : {5 * OneSecond}]

\* The configs of direct spawn calls: a fast particle at the origin living three
\* ticks; a resting one with a target, one unit along x, living two.
SpawnConfigs ==
    {[NoConfig EXCEPT !.position = Some(Origin), !.velocity = Some(<<10 * Unit, 0, 0>>),
                      !.life = Some(3), !.size = Some(Unit),
                      !.color = Some(COLONY_COLORS("spark"))],
     [NoConfig EXCEPT !.position = Some(OneAlongX), !.velocity = Some(Zero3),
                      !.life = Some(2), !.colony = Some("flow"),
                      !.targetPosition = Some(Origin)]}

\* Burst and shake intensities, in hundredths: 0 and 1.
Intensities == {0, 100}

\* The stand-in for 0.5 + 0.5 * (1 + Math.sin(time * 0.001)): a function of the
\* frame's time with values 0.5, 1 and 1.5.
BreathingPhase(time) == 100 + 50 * Wave(time)

\* Raw elapsed times of a frame, in ticks: 0.05 s and a stall of 5 s.
StallDelta == 5 * OneSecond
Deltas == {1, StallDelta}

\* The same with a frame of no elapsed time and one just over the cap.
MotionDeltas == Deltas \cup {0, DtCap + 1}

\* The random force of shake for one particle, each component within
\* [-intensity / 2, intensity / 2].
ShakeDraws(intensity) ==
    {<<TDiv(intensity, 2), 0, -TDiv(intensity, 4)>>, <<-TDiv(intensity, 4), 0, 0>>}

\* Forces handed to applyForce.
Forces == {<<0, 10 * Unit, 0>>}


\* ----------------------------------------------------------------- actions

PoolState == [pool |-> pool, activeCount |-> activeCount, ret |-> ret]

\* The pool state becomes st; a slot that turns active starts a new age.
SetPool(st) ==
    /\ pool' = st.pool
    /\ activeCount' = st.activeCount
    /\ ret' = st.ret
    /\ age' = [i \in Ids |-> IF ~pool[i].active /\ st.pool[i].active THEN 0 ELSE age[i]]

Idle == frame.pc = "idle"

\* The frame record once the call s of the callback has returned.
StepDone(s) == [frame EXCEPT !.pc = AfterStep(s), !.done = Append(frame.done, s)]

Init ==
    /\ pool = InitialPool
    /\ activeCount = 0
    /\ ret = Null
    /\ age = [i \in Ids |-> 0]
    /\ reducedMotion \in BOOLEAN
    /\ physics = InitialPhysics(reducedMotion)
    /\ trail = InitialTrail(reducedMotion)
    /\ frame = [pc |-> "idle", done |-> <<>>, delta |-> 0, phase |-> 100, time |-> 0,
                frameCount |-> 0]
    /\ constellation = InitialConstellation(ConnectionDistance, MaxConnections)
    /\ spatialHash = NewSpatialHash(ConnectionDistance)
    /\ calls = [shake |-> 0, applyForce |-> 0, update |-> 0]
    /\ inserted = <<>>
    /\ nearby = [point |-> Zero3, ids |-> <<>>]
    /\ input = [particles |-> <<>>, connectionDistance |-> ConnectionDistance]

\* particleManager.spawn(config).
Spawn(config) ==
    /\ Idle
    /\ \E rnd \in SpawnDraws : SetPool(SpawnOp(PoolState, config, rnd))
    /\ UNCHANGED <<reducedMotion, physics, trail, frame, constellation, spatialHash, calls,
                   probes>>

\* The handler of 'particle:spawn': count spawns of {position, color}.
OnParticleSpawn(count, color, position) ==
    /\ Idle
    /\ \E rnds \in [1 .. count -> SpawnDraws] :
          SetPool(SpawnLoop(PoolState,
                            [k \in 1 .. count |->
                               [NoConfig EXCEPT !.position = position, !.color = color]],
                            rnds))
    /\ UNCHANGED <<reducedMotion, physics, trail, frame, constellation, spatialHash, calls,
                   probes>>

\* Faulty variant of BurstCount: the free slots are not looked at.
BurstCountUncapped(intensity, count) == intensity \div 10

\* The spawn count of burst(intensity).
BurstCount(intensity, count) == Min(intensity \div 10, MAX_PARTICLES - count)

\* The config of one spawn of burst.
BurstConfig(intensity, origin, d) ==
    [NoConfig EXCEPT !.position = Some(origin),
                     !.velocity = Some(VPercent(d.direction, Percent(d.speed, intensity))),
                     !.life = Some(d.life), !.size = Some(d.size)]

\* burst(intensity, center) on the pool state st, draws[k] for the k-th spawn.
BurstOp(st, intensity, center, draws) ==
    LET origin == IF IsSome(center) THEN center[1] ELSE BurstOrigin
    IN  SpawnLoop(st, [k \in DOMAIN draws |-> BurstConfig(intensity, origin, draws[k])],
                  [k \in DOMAIN draws |->
                     [position |-> origin, velocity |-> Zero3, size |-> draws[k].size,
                      life |-> draws[k].life]])

\* particleManager.burst(intensity, center).
Burst(intensity, center) ==
    /\ Idle
    /\ \E draws \in [1 .. BurstCount(intensity, activeCount) -> BurstDraws] :
          SetPool(BurstOp(PoolState, intensity, center, draws))
    /\ UNCHANGED <<reducedMotion, physics, trail, frame, constellation, spatialHash, calls,
                   probes>>

\* The handler of 'particle:burst'.
OnParticleBurst(intensity) == Burst(intensity, Null)

\* particleManager.clearAll().
ClearAll ==
    /\ Idle
    /\ SetPool(ClearAllOp(PoolState))
    /\ UNCHANGED <<reducedMotion, physics, trail, frame, constellation, spatialHash, calls,
                   probes>>

\* The handler of 'particle:clear'.
OnParticleClear == ClearAll

\* physics.shake(intensity), also the handler of 'physics:shake'.
Shake(intensity) ==
    /\ Idle
    /\ \E deltas \in [Ids -> ShakeDraws(intensity)] :
          pool' = ShakePool(pool, deltas)
    /\ calls.shake < MaxShakes
    /\ calls' = [calls EXCEPT !.shake = @ + 1]
    /\ UNCHANGED <<activeCount, ret, age, reducedMotion, physics, trail, frame,
                   constellation, spatialHash, probes>>

\* particleManager.applyForce(force).
ApplyForce(force) ==
    /\ Idle
    /\ pool' = ApplyForceOp(pool, force)
    /\ calls.applyForce < MaxForces
    /\ calls' = [calls EXCEPT !.applyForce = @ + 1]
    /\ UNCHANGED <<activeCount, ret, age, reducedMotion, physics, trail, frame,
                   constellation, spatialHash, probes>>

\* mousemove / touchmove: the pointer is in view, at a point of the scene.
MouseMove(point) ==
    /\ Idle
    /\ trail' = [trail EXCEPT !.mouseWorld = point, !.isMouseInView = TRUE]
    /\ UNCHANGED <<pool, activeCount, ret, age, reducedMotion, physics, frame,
                   constellation, spatialHash, calls, probes>>

\* mouseleave / touchend.
MouseLeave ==
    /\ Idle
    /\ trail' = [trail EXCEPT !.isMouseInView = FALSE]
    /\ UNCHANGED <<pool, activeCount, ret, age, reducedMotion, physics, frame,
                   constellation, spatialHash, calls, probes>>

\* The animation-loop callback starts: clock.getDelta(), the breathing phase.
FrameBegin(delta) ==
    /\ Idle
    /\ frame.frameCount < MaxFrames
    /\ frame' = [frame EXCEPT !.pc = AfterStep("idle"), !.delta = delta,
                              !.phase = IF reducedMotion THEN 100
                                        ELSE BreathingPhase(frame.time + delta),
                              !.time = frame.time + delta]
    /\ UNCHANGED <<pool, activeCount, ret, age, reducedMotion, physics, trail,
                   constellation, spatialHash, calls, probes>>

\* this.mouseTrail.update(time).
TrailUpdate ==
    /\ frame.pc = "trail"
    /\ \E rnd \in TrailDraws :
          LET r == TrailUpdateOp(trail, PoolState, frame.time, rnd)
          IN  trail' = r.trail /\ SetPool(r.st)
    /\ frame' = StepDone("trail")
    /\ UNCHANGED <<reducedMotion, physics, constellation, spatialHash, calls, probes>>

\* this.physics.update(delta).
PhysicsUpdate ==
    /\ frame.pc = "physics"
    /\ pool' = PhysicsPool(physics, pool, frame.delta, reducedMotion)
    /\ physics' = PhysicsUpdateOp(physics, frame.delta, reducedMotion)
    /\ frame' = StepDone("physics")
    /\ UNCHANGED <<activeCount, ret, age, reducedMotion, trail, constellation, spatialHash,
                   calls, probes>>

\* setCursorPosition(position).
SetCursorPositionOp(ph, position) ==
    [ph EXCEPT !.cursorPosition = position, !.cursorActive = TRUE]

\* this.physics.setCursorPosition(this.mouseTrail.getWorldPosition()).
CursorUpdate ==
    /\ frame.pc = "cursor"
    /\ physics' = SetCursorPositionOp(physics, trail.worldPosition)
    /\ frame' = StepDone("cursor")
    /\ UNCHANGED <<pool, activeCount, ret, age, reducedMotion, trail, constellation,
                   spatialHash, calls, probes>>

\* this.particleManager.update(delta, this.phase).
ParticleUpdate ==
    /\ frame.pc = "particles"
    /\ LET st == UpdateOp(PoolState, frame.delta, frame.phase, reducedMotion)
       IN  /\ pool' = st.pool
           /\ activeCount' = st.activeCount
           /\ age' = [i \in Ids |-> IF pool[i].active
                                    THEN age[i] + Min(frame.delta, DtCap) ELSE age[i]]
    /\ frame' = StepDone("particles")
    /\ UNCHANGED <<ret, reducedMotion, physics, trail, constellation, spatialHash, calls,
                   probes>>

\* this.constellations.update(this.particleManager.getActive(), this.phase).
ConstellationUpdate ==
    /\ frame.pc = "constellation"
    /\ LET r == ConstellationUpdateOp(constellation, spatialHash, getActive(pool),
                                      frame.phase, reducedMotion)
       IN  constellation' = r.cs /\ spatialHash' = r.hash
    /\ frame' = StepDone("constellation")
    /\ UNCHANGED <<pool, activeCount, ret, age, reducedMotion, physics, trail, calls,
                   probes>>

\* renderer.render and checkPerformance: the callback returns (its local delta is
\* gone), frameCount++.
Render ==
    /\ frame.pc = "render"
    /\ frame' = [frame EXCEPT !.pc = AfterStep("render"), !.done = <<>>, !.delta = 0,
                              !.frameCount = frame.frameCount + 1]
    /\ UNCHANGED <<pool, activeCount, ret, age, reducedMotion, physics, trail,
                   constellation, spatialHash, calls, probes>>

Next ==
    \/ \E config \in SpawnConfigs : Spawn(config)
    \/ \E count \in 1 .. (MAX_PARTICLES + SpawnOver) :
          OnParticleSpawn(count, Some(COLONY_COLORS("grove")), Null)
    \/ \E intensity \in Intensities : Burst(intensity, Some(Origin))
    \/ \E intensity \in Intensities : OnParticleBurst(intensity)
    \/ ClearAll
    \/ OnParticleClear
    \/ MouseMove(Origin)
    \/ MouseLeave
    \/ \E delta \in Deltas : FrameBegin(delta)
    \/ TrailUpdate
    \/ PhysicsUpdate
    \/ CursorUpdate
    \/ ParticleUpdate
    \/ ConstellationUpdate
    \/ Render

Spec == Init /\ [][Next]_vars

\* -------------------------------------- a ParticleManager on its own (PoolSpec)

\* particleManager.update(deltaTime, breathingPhase), called directly.
PoolUpdate(deltaTime, breathingPhase) ==
    /\ Idle
    /\ calls.update < MaxUpdates
    /\ calls' = [calls EXCEPT !.update = @ + 1]
    /\ LET st == UpdateOp(PoolState, deltaTime, breathingPhase, reducedMotion)
       IN  /\ pool' = st.pool
           /\ activeCount' = st.activeCount
           /\ age' = [i \in Ids |-> IF pool[i].active
                                    THEN age[i] + Min(deltaTime, DtCap) ELSE age[i]]
    /\ UNCHANGED <<ret, reducedMotion, physics, trail, frame, constellation, spatialHash,
                   probes>>

\* The public operations of the ParticleManager and its three event handlers, in
\* any order.
PoolNext ==
    \/ \E config \in SpawnConfigs : Spawn(config)
    \/ \E count \in 1 .. (MAX_PARTICLES + SpawnOver) :
          OnParticleSpawn(count, Some(COLONY_COLORS("grove")), Null)
    \/ \E intensity \in Intensities : Burst(intensity, Some(Origin))
    \/ \E intensity \in Intensities : OnParticleBurst(intensity)
    \/ ClearAll
    \/ OnParticleClear
    \/ \E deltaTime \in Deltas : PoolUpdate(deltaTime, 100)

PoolSpec == Init /\ [][PoolNext]_vars

\* ------------------------------------------- forces between frames (MotionSpec)

\* The frame loop with direct spawns, and physics.shake and
\* particleManager.applyForce called between frames.
MotionNext ==
    \/ \E config \in SpawnConfigs \cup {NoConfig} : Spawn(config)
    \/ Shake(200)
    \/ \E force \in Forces : ApplyForce(force)
    \/ \E delta \in MotionDeltas : FrameBegin(delta)
    \/ TrailUpdate
    \/ PhysicsUpdate
    \/ CursorUpdate
    \/ ParticleUpdate
    \/ ConstellationUpdate
    \/ Render

MotionSpec == Init /\ [][MotionNext]_vars

\* ------------------------- configuration calls between frames (PhysicsSpec)

\* The wells handed to addGravityWell: one unit along x with radius 2 and with
\* radius 1, and a well of radius 0 at the origin.
GravityWells ==
    {[id |-> "near", position |-> OneAlongX, strength |-> 2 * Unit,
      radius |-> 2 * Unit, falloff |-> "linear"],
     [id |-> "near", position |-> OneAlongX, strength |-> 2 * Unit,
      radius |-> Unit, falloff |-> "quadratic"],
     [id |-> "flat", position |-> Origin, strength |-> 2 * Unit,
      radius |-> 0, falloff |-> "constant"]}

\* The ids handed to removeGravityWell and setGravityWellActive.
WellIds == {"near", "flat"}

\* The chapters entered: The Void, one without a case, The Anvil and
\* Crystallization.
Chapters == {0, 1, 2, 7}

\* physics.addGravityWell(well).
AddGravityWell(well) ==
    /\ Idle
    /\ physics' = AddGravityWellOp(physics, well)
    /\ UNCHANGED <<pool, activeCount, ret, age, reducedMotion, trail, frame,
                   constellation, spatialHash, calls, probes>>

\* physics.removeGravityWell(id).
RemoveGravityWell(id) ==
    /\ Idle
    /\ physics' = RemoveGravityWellOp(physics, id)
    /\ UNCHANGED <<pool, activeCount, ret, age, reducedMotion, trail, frame,
                   constellation, spatialHash, calls, probes>>

\* physics.setGravityWellActive(id, active).
SetGravityWellActive(id, active) ==
    /\ Idle
    /\ physics' = SetGravityWellActiveOp(physics, id, active)
    /\ UNCHANGED <<pool, activeCount, ret, age, reducedMotion, trail, frame,
                   constellation, spatialHash, calls, probes>>

\* physics.clearGravityWells().
ClearGravityWells ==
    /\ Idle
    /\ physics' = ClearGravityWellsOp(physics)
    /\ UNCHANGED <<pool, activeCount, ret, age, reducedMotion, trail, frame,
                   constellation, spatialHash, calls, probes>>

\* The handler of 'chapter:enter': physics.configureForChapter(index).
OnChapterEnter(index) ==
    /\ Idle
    /\ physics' = ConfigureForChapterOp(physics, index)
    /\ UNCHANGED <<pool, activeCount, ret, age, reducedMotion, trail, frame,
                   constellation, spatialHash, calls, probes>>

\* physics.setEnabled(enabled).
SetEnabled(enabled) ==
    /\ Idle
    /\ physics' = SetEnabledOp(physics, enabled, reducedMotion)
    /\ UNCHANGED <<pool, activeCount, ret, age, reducedMotion, trail, frame,
                   constellation, spatialHash, calls, probes>>

\* The frame loop with direct spawns, particleManager.applyForce and
\* physics.setEnabled between frames.
PhysicsNext ==
    \/ \E config \in SpawnConfigs : Spawn(config)
    \/ \E force \in Forces : ApplyForce(force)
    \/ \E enabled \in BOOLEAN : SetEnabled(enabled)
    \/ \E delta \in Deltas : FrameBegin(delta)
    \/ TrailUpdate
    \/ PhysicsUpdate
    \/ CursorUpdate
    \/ ParticleUpdate
    \/ ConstellationUpdate
    \/ Render

PhysicsSpec == Init /\ [][PhysicsNext]_vars

\* The frame loop with spawns at the origin, physics.shake and the gravity-well
\* calls of the PhysicsSystem between frames.
WellNext ==
    \/ Spawn(CHOOSE config \in SpawnConfigs : config.position = Some(Origin))
    \/ Shake(200)
    \/ \E well \in GravityWells : AddGravityWell(well)
    \/ \E id \in WellIds : RemoveGravityWell(id)
    \/ \E id \in WellIds : \E active \in BOOLEAN : SetGravityWellActive(id, active)
    \/ ClearGravityWells
    \/ \E index \in Chapters : OnChapterEnter(index)
    \/ FrameBegin(DtCap)
    \/ TrailUpdate
    \/ PhysicsUpdate
    \/ CursorUpdate
    \/ ParticleUpdate
    \/ ConstellationUpdate
    \/ Render

WellSpec == Init /\ [][WellNext]_vars

\* ------------------------------------ the mouse trail alone (TrailSpec)

\* The frame loop with the pointer moving in and out of view: the MouseTrail is
\* the only caller of spawn.
TrailNext ==
    \/ \E point \in {Origin, OneAlongX} : MouseMove(point)
    \/ MouseLeave
    \/ \E delta \in Deltas : FrameBegin(delta)
    \/ TrailUpdate
    \/ PhysicsUpdate
    \/ CursorUpdate
    \/ ParticleUpdate
    \/ ConstellationUpdate
    \/ Render

TrailSpec == Init /\ [][TrailNext]_vars

\* ------------------------------------- sizes over a short life (SizeSpec)

\* A resting particle of 0.35 s (seven ticks) and size 1.
SizeConfigs ==
    {[NoConfig EXCEPT !.position = Some(Origin), !.velocity = Some(Zero3),
                      !.life = Some(OneSecond \div 3 + 1), !.size = Some(Unit)]}

\* Spawns of short and of default life, direct calls of update with the default
\* breathingPhase of 1, and the frame loop.
SizeNext ==
    \/ \E config \in SizeConfigs \cup {NoConfig} : Spawn(config)
    \/ \E deltaTime \in Deltas : PoolUpdate(deltaTime, 100)
    \/ \E delta \in MotionDeltas : FrameBegin(delta)
    \/ TrailUpdate
    \/ PhysicsUpdate
    \/ CursorUpdate
    \/ ParticleUpdate
    \/ ConstellationUpdate
    \/ Render

SizeSpec == Init /\ [][SizeNext]_vars

\* --------------------------------- the magnetic cursor (CursorSpec)

\* The point at distance magneticRadius (3.0) from the origin.
AtCursorRadius == <<3 * Unit, 0, 0>>

\* Resting particles of one second: at the origin, one unit from it and at the
\* magnetic radius.
CursorSpawnConfigs ==
    {[NoConfig EXCEPT !.position = Some(at), !.velocity = Some(Zero3),
                      !.life = Some(OneSecond), !.size = Some(Unit)] :
        at \in {Origin, OneAlongX, AtCursorRadius}}

\* The payloads of 'physics:magnetic': the two the program emits, and active
\* without repel.
MagneticPayloads ==
    {[active |-> TRUE, repel |-> Some(TRUE)], [active |-> FALSE, repel |-> Null],
     [active |-> TRUE, repel |-> Null]}

\* A PhysicsSystem constructed with magneticCursor on or off.
CursorInit ==
    /\ pool = InitialPool
    /\ activeCount = 0
    /\ ret = Null
    /\ age = [i \in Ids |-> 0]
    /\ reducedMotion \in BOOLEAN
    /\ \E on \in BOOLEAN :
          physics = [InitialPhysics(reducedMotion) EXCEPT !.config.magneticCursor = on]
    /\ trail = InitialTrail(reducedMotion)
    /\ frame = [pc |-> "idle", done |-> <<>>, delta |-> 0, phase |-> 100, time |-> 0,
                frameCount |-> 0]
    /\ constellation = InitialConstellation(ConnectionDistance, MaxConnections)
    /\ spatialHash = NewSpatialHash(ConnectionDistance)
    /\ calls = [shake |-> 0, applyForce |-> 0, update |-> 0]
    /\ inserted = <<>>
    /\ nearby = [point |-> Zero3, ids |-> <<>>]
    /\ input = [particles |-> <<>>, connectionDistance |-> ConnectionDistance]

\* eventBus.emit('physics:magnetic', payload).
OnPhysicsMagnetic(payload) ==
    /\ Idle
    /\ physics' = OnPhysicsMagneticOp(physics, payload.active, payload.repel)
    /\ UNCHANGED <<pool, activeCount, ret, age, reducedMotion, trail, frame,
                   constellation, spatialHash, calls, probes>>

\* The Shift key goes down or up.
ShiftKey(down) ==
    /\ Idle
    /\ physics' = ShiftKeyOp(physics, down)
    /\ UNCHANGED <<pool, activeCount, ret, age, reducedMotion, trail, frame,
                   constellation, spatialHash, calls, probes>>

\* The frame loop with resting particles, the 'physics:magnetic' event and the
\* Shift key between frames.
CursorNext ==
    \/ \E config \in CursorSpawnConfigs : Spawn(config)
    \/ \E payload \in MagneticPayloads : OnPhysicsMagnetic(payload)
    \/ \E down \in BOOLEAN : ShiftKey(down)
    \/ FrameBegin(DtCap)
    \/ TrailUpdate
    \/ PhysicsUpdate
    \/ CursorUpdate
    \/ ParticleUpdate
    \/ ConstellationUpdate
    \/ Render

CursorSpec == CursorInit /\ [][CursorNext]_vars

\* ------------------------------------ the force functions alone (ForceSpec)

\* The arguments of a call, on the fine grid: positions at distance 0, 0.0005,
\* 0.001, 0.0015, 0.2 and 1.0 from the centers, strength +-0.1, minDistance 0 and
\* the 0.2 of PhysicsSystem.update, maxDistance 3.0.
FineArguments ==
    {[unit |-> FineUnit, position |-> p, center |-> c, strength |-> s,
      minDistance |-> lo, maxDistance |-> 3 * FineUnit, falloffType |-> f] :
        p \in {Zero3, <<1, 0, 0>>, <<0, -1, 0>>, <<1, 1, 0>>, <<2, 0, 0>>, <<0, 0, 3>>,
               <<FineUnit \div 5, 0, 0>>, <<0, FineUnit, 0>>},
        c \in {Zero3, <<0, -1, 0>>},
        s \in {FineUnit \div 10, -(FineUnit \div 10)},
        lo \in {0, FineUnit \div 5},
        f \in {"constant", "linear", "quadratic"}}

\* The arguments of a call, on the grid of the simulation: positions at distance
\* 0, 1, 2 and 5 from the center, strength 1 and 0.5.
UnitArguments ==
    {[unit |-> Unit, position |-> p, center |-> Zero3, strength |-> s,
      minDistance |-> Unit \div 5, maxDistance |-> 3 * Unit, falloffType |-> f] :
        p \in {Zero3, OneAlongX, <<0, 2 * Unit, 0>>, <<3 * Unit, 4 * Unit, 0>>},
        s \in {Unit, Unit \div 2},
        f \in {"constant", "linear", "quadratic"}}

\* The arguments are drawn; nothing has been called.
ForceInit ==
    /\ pool = InitialPool
    /\ activeCount = 0
    /\ ret = Null
    /\ age = [i \in Ids |-> 0]
    /\ reducedMotion \in BOOLEAN
    /\ physics = InitialPhysics(reducedMotion)
    /\ trail = InitialTrail(reducedMotion)
    /\ frame = [pc |-> "idle", done |-> <<>>, delta |-> 0, phase |-> 100, time |-> 0,
                frameCount |-> 0]
    /\ constellation = InitialConstellation(ConnectionDistance, MaxConnections)
    /\ spatialHash = NewSpatialHash(ConnectionDistance)
    /\ calls = [shake |-> 0, applyForce |-> 0, update |-> 0]
    /\ inserted = <<>>
    /\ nearby = [point |-> Zero3, ids |-> <<>>]
    /\ \E a \in FineArguments \cup UnitArguments :
          input = [arguments |-> a, called |-> "", force |-> Zero3]

\* calculateMagneticForce(position, attractor, strength, minDistance, maxDistance).
MagneticForceCall ==
    /\ LET a == input.arguments
       IN  input' = [input EXCEPT
                       !.called = "calculateMagneticForce",
                       !.force = MagneticForceAt(a.unit, a.position, a.center,
                                                 a.strength, a.minDistance,
                                                 a.maxDistance)]
    /\ UNCHANGED <<pool, activeCount, ret, age, reducedMotion, physics, trail, frame,
                   constellation, spatialHash, calls, inserted, nearby>>

\* calculateGravityForce(position, center, strength, falloffType).
GravityForceCall ==
    /\ LET a == input.arguments
       IN  input' = [input EXCEPT
                       !.called = "calculateGravityForce",
                       !.force = GravityForceAt(a.unit, a.position, a.center,
                                                a.strength, a.falloffType)]
    /\ UNCHANGED <<pool, activeCount, ret, age, reducedMotion, physics, trail, frame,
                   constellation, spatialHash, calls, inserted, nearby>>

ForceNext == MagneticForceCall \/ GravityForceCall

ForceSpec == ForceInit /\ [][ForceNext]_vars

\* --------------------------------------- a SpatialHash on its own (HashSpec)

\* Cell sizes of the hashes under test: 1 and 2 units.
CellSizes == {Unit, ConnectionDistance}

\* Positions inserted and queried: on and next to cell borders, on both sides of
\* zero, and far apart.
HashPoints ==
    {Origin, OneAlongX, <<-1, 0, 0>>, <<Unit - 1, -1, Unit \div 2>>,
     <<0, 0, -Unit>>, <<-Unit - (Unit \div 2), 2 * Unit, 0>>}

\* A SpatialHash of some cell size, nothing inserted.
HashInit ==
    /\ pool = InitialPool
    /\ activeCount = 0
    /\ ret = Null
    /\ age = [i \in Ids |-> 0]
    /\ reducedMotion \in BOOLEAN
    /\ physics = InitialPhysics(reducedMotion)
    /\ trail = InitialTrail(reducedMotion)
    /\ frame = [pc |-> "idle", done |-> <<>>, delta |-> 0, phase |-> 100, time |-> 0,
                frameCount |-> 0]
    /\ constellation = InitialConstellation(ConnectionDistance, MaxConnections)
    /\ \E c \in CellSizes : spatialHash = NewSpatialHash(c)
    /\ calls = [shake |-> 0, applyForce |-> 0, update |-> 0]
    /\ inserted = <<>>
    /\ nearby = [point |-> Zero3, ids |-> <<>>]
    /\ input = [particles |-> <<>>, connectionDistance |-> ConnectionDistance]

\* hash.insert(id, position).
HashInsertCall(id, position) ==
    /\ Len(inserted) < MaxInserts
    /\ spatialHash' = HashInsert(spatialHash, id, position)
    /\ inserted' = Append(inserted, [id |-> id, position |-> position])
    /\ UNCHANGED <<pool, activeCount, ret, age, reducedMotion, physics, trail, frame,
                   constellation, calls, nearby, input>>

\* hash.clear().
HashClearCall ==
    /\ spatialHash' = HashClear(spatialHash)
    /\ inserted' = <<>>
    /\ UNCHANGED <<pool, activeCount, ret, age, reducedMotion, physics, trail, frame,
                   constellation, calls, nearby, input>>

\* hash.getNearby(position).
HashNearbyCall(position) ==
    /\ nearby' = [point |-> position, ids |-> getNearby(spatialHash, position)]
    /\ UNCHANGED <<pool, activeCount, ret, age, reducedMotion, physics, trail, frame,
                   constellation, spatialHash, calls, inserted, input>>

\* The k-th particle inserted after a clear has the id k - 1.
HashNext ==
    \/ \E position \in HashPoints : HashInsertCall(Len(inserted), position)
    \/ HashClearCall
    \/ \E position \in HashPoints : HashNearbyCall(position)

HashSpec == HashInit /\ [][HashNext]_vars

\* ------------------------- a ConstellationSystem on its own (ConstellationSpec)

\* Positions of the particles handed to update: the origin, one unit along x
\* and 0.4 units along -x.
ConstellationPoints == <<Origin, OneAlongX, <<-(4 * Unit) \div 10, 0, 0>>>>

\* The arrays of n particles at these points, the particles listed in the order
\* of the points.
ParticlePlacements(n) ==
    {[k \in 1 .. n |-> ConstellationPoints[ix[k]]] :
        ix \in {jx \in [1 .. n -> DOMAIN ConstellationPoints] :
                  \A k \in 1 .. (n - 1) : jx[k] <= jx[k + 1]}}

\* Connection distances set by setConnectionDistance: 0.5 and 2.0.
ConnectionDistances == {Unit \div 2, ConnectionDistance}

\* An array of n particles with ids 0 .. n - 1 at the positions at.
ParticleArray(at) ==
    [k \in DOMAIN at |->
       [InitialParticle(k - 1) EXCEPT !.active = TRUE, !.position = at[k],
                                      !.life = OneSecond]]

\* constellations.setConnectionDistance(distance).
SetConnectionDistance(distance) ==
    /\ LET r == SetConnectionDistanceOp(constellation, distance)
       IN  constellation' = r.cs /\ spatialHash' = r.hash
    /\ UNCHANGED <<pool, activeCount, ret, age, reducedMotion, physics, trail, frame,
                   calls, inserted, nearby, input>>

\* constellations.update(particles, breathingPhase) on an array of the caller.
ConstellationCall(particles, breathingPhase) ==
    /\ LET r == ConstellationUpdateOp(constellation, spatialHash, particles,
                                      breathingPhase, reducedMotion)
       IN  constellation' = r.cs /\ spatialHash' = r.hash
    /\ input' = [particles |-> particles,
                 connectionDistance |-> constellation.connectionDistance]
    /\ UNCHANGED <<pool, activeCount, ret, age, reducedMotion, physics, trail, frame,
                   calls, inserted, nearby>>

ConstellationNext ==
    \/ \E distance \in ConnectionDistances : SetConnectionDistance(distance)
    \/ \E n \in 0 .. MaxInput : \E at \in ParticlePlacements(n) :
          ConstellationCall(ParticleArray(at), 100)

ConstellationSpec == Init /\ [][ConstellationNext]_vars

\* ------------------------------------------ the EventBus on its own (BusSpec)

\* Event types emitted and subscribed to (two of KagamiEventType).
EventTypes == {"particle:burst", "physics:shake"}

\* What a callback does when called: it returns, it throws, it emits the event's
\* type again (as long as the emit it runs in is nested less than MaxDepth deep),
\* or it calls every unsubscribe function once() has returned so far.
Behaviours == {"returns", "throws", "emits", "cancels"}

\* A member of a listener Set: the callback handed to on() (wrapped = 0), or the
\* n-th wrappedCallback made by once() around it (wrapped = n).
Listener(callback, wrapped) == [callback |-> callback, wrapped |-> wrapped]

\* new EventBusImpl(): no listeners, no history, no once() called; with the
\* history fields: subscriptions and emits count the calls of on/once and of
\* emit, emitted, invoked and escaped describe the latest emit (its type, the
\* callbacks called in order with the depth of the emit calling them, and whether
\* it threw to its caller), late is set when a once callback runs after its
\* unsubscribe function was called.
NewEventBus ==
    [listeners |-> [type \in EventTypes |-> <<>>], eventHistory |-> <<>>,
     onces |-> <<>>, subscriptions |-> 0, emits |-> 0, emitted |-> "",
     invoked |-> <<>>, escaped |-> FALSE, late |-> FALSE]

\* callbacks.has(callback) on the Set of the type.
Subscribed(b, type, listener) ==
    \E k \in DOMAIN b.listeners[type] : b.listeners[type][k] = Some(listener)

\* on(type, callback): Set.add appends the callback unless the Set has it.
OnOp(b, type, listener) ==
    IF Subscribed(b, type, listener) THEN b
    ELSE [b EXCEPT !.listeners[type] = Append(@, Some(listener))]

\* The places of a Set with the place of the listener, if it has one, emptied.
RECURSIVE Emptied(_, _)
Emptied(places, listener) ==
    IF places = <<>> THEN <<>>
    ELSE <<IF Head(places) = Some(listener) THEN Null ELSE Head(places)>>
         \o Emptied(Tail(places), listener)

\* off(type, callback): Set.delete empties the callback's place, so a forEach
\* that has not reached it passes it by.
OffOp(b, type, listener) == [b EXCEPT !.listeners[type] = Emptied(@, listener)]

\* once(type, callback): a new wrappedCallback is made and handed to on().
OnceOp(b, type, callback) ==
    OnOp([b EXCEPT !.onces = Append(@, [type |-> type, callback |-> callback,
                                        fired |-> 0, cancelled |-> FALSE])],
         type, Listener(callback, Len(b.onces) + 1))

\* The function once() returned for its n-th call: () => this.off(type,
\* wrappedCallback).
UnsubscribeOp(b, n) ==
    [OffOp(b, b.onces[n].type, Listener(b.onces[n].callback, n))
       EXCEPT !.onces[n].cancelled = TRUE]

\* The unsubscribe functions of the once() calls from the n-th on, called in turn.
RECURSIVE UnsubscribeFrom(_, _)
UnsubscribeFrom(b, n) ==
    IF n > Len(b.onces) THEN b ELSE UnsubscribeFrom(UnsubscribeOp(b, n), n + 1)

\* Faulty variant of WrapperOff: the wrapper stays subscribed.
WrapperStaysOn(b, type, listener) == b

\* The first statement of wrappedCallback: this.off(type, wrappedCallback).
WrapperOff(b, type, listener) == OffOp(b, type, listener)

\* Faulty variant of Escapes: the exception of a callback leaves forEach.
EscapesUncaught(thrown) == thrown

\* try { callback(event) } catch (error) { console.error(..) }: whether what the
\* callback threw leaves the statement.
Escapes(thrown) == FALSE

\* eventHistory.push(event), and shift() beyond maxHistory.
StoreInHistory(history, type) ==
    IF Len(history) + 1 > maxHistory THEN Tail(Append(history, type))
    ELSE Append(history, type)

RECURSIVE emit(_, _, _)
RECURSIVE ForEach(_, _, _, _)

\* callback(event) for a member of the Set, in an emit nested depth deep: a
\* wrappedCallback unsubscribes itself and calls its callback.
Invoke(b, type, listener, depth) ==
    LET n == listener.wrapped
        off == IF n > 0 THEN WrapperOff(b, type, listener) ELSE b
        noted == [off EXCEPT
                    !.invoked = Append(@, [listener |-> listener, depth |-> depth])]
        called == IF n = 0 THEN noted
                  ELSE [noted EXCEPT !.onces[n].fired = @ + 1,
                                     !.late = @ \/ b.onces[n].cancelled]
    IN  CASE listener.callback = "returns" -> [bus |-> called, thrown |-> FALSE]
          [] listener.callback = "throws" -> [bus |-> called, thrown |-> TRUE]
          [] listener.callback = "emits" ->
               IF depth < MaxDepth THEN emit(called, type, depth + 1)
               ELSE [bus |-> called, thrown |-> FALSE]
          [] listener.callback = "cancels" ->
               [bus |-> UnsubscribeFrom(called, 1), thrown |-> FALSE]

\* callbacks.forEach(callback => { try .. catch .. }) from the k-th place of the
\* Set on: emptied places are passed by, places appended meanwhile are reached.
ForEach(b, type, k, depth) ==
    IF k > Len(b.listeners[type]) THEN [bus |-> b, thrown |-> FALSE]
    ELSE IF b.listeners[type][k] = Null THEN ForEach(b, type, k + 1, depth)
    ELSE LET r == Invoke(b, type, b.listeners[type][k][1], depth)
         IN  IF Escapes(r.thrown) THEN [bus |-> r.bus, thrown |-> TRUE]
             ELSE ForEach(r.bus, type, k + 1, depth)

\* emit(type, payload), nested depth deep: the bus afterwards and whether the
\* call threw.
emit(b, type, depth) ==
    ForEach([b EXCEPT !.eventHistory = StoreInHistory(@, type)], type, 1, depth)

\* clear(): listeners.clear() and eventHistory = [].
ClearOp(b) ==
    [b EXCEPT !.listeners = [type \in EventTypes |-> <<>>], !.eventHistory = <<>>]

\* The Sets when no forEach is running: the emptied places are gone.
Settled(b) ==
    [b EXCEPT !.listeners =
                 [type \in EventTypes |-> SelectSeq(@[type], LAMBDA s : s # Null)]]

\* A new EventBus next to the systems as constructed.
BusInit ==
    /\ pool = InitialPool
    /\ activeCount = 0
    /\ ret = Null
    /\ age = [i \in Ids |-> 0]
    /\ reducedMotion = FALSE
    /\ physics = InitialPhysics(reducedMotion)
    /\ trail = InitialTrail(reducedMotion)
    /\ frame = [pc |-> "idle", done |-> <<>>, delta |-> 0, phase |-> 100, time |-> 0,
                frameCount |-> 0]
    /\ constellation = InitialConstellation(ConnectionDistance, MaxConnections)
    /\ spatialHash = NewSpatialHash(ConnectionDistance)
    /\ calls = [shake |-> 0, applyForce |-> 0, update |-> 0]
    /\ inserted = <<>>
    /\ nearby = [point |-> Zero3, ids |-> <<>>]
    /\ input = NewEventBus

\* The bus becomes b; nothing else changes.
SetBus(b) ==
    /\ input' = Settled(b)
    /\ UNCHANGED <<pool, activeCount, ret, age, reducedMotion, physics, trail, frame,
                   constellation, spatialHash, calls, inserted, nearby>>

\* eventBus.on(type, callback).
BusOn(type, callback) ==
    /\ input.subscriptions < MaxListeners
    /\ SetBus([OnOp(input, type, Listener(callback, 0))
                 EXCEPT !.subscriptions = @ + 1])

\* eventBus.once(type, callback).
BusOnce(type, callback) ==
    /\ input.subscriptions < MaxListeners
    /\ SetBus([OnceOp(input, type, callback) EXCEPT !.subscriptions = @ + 1])

\* eventBus.off(type, callback), or the function on() returned.
BusOff(type, callback) ==
    /\ Subscribed(input, type, Listener(callback, 0))
    /\ SetBus(OffOp(input, type, Listener(callback, 0)))

\* The function the n-th once() returned is called.
BusUnsubscribe(n) ==
    /\ n \in DOMAIN input.onces
    /\ ~input.onces[n].cancelled
    /\ SetBus(UnsubscribeOp(input, n))

\* eventBus.emit(type, payload), from outside any callback.
BusEmit(type) ==
    /\ input.emits < MaxEmits
    /\ LET r == emit([input EXCEPT !.invoked = <<>>], type, 0)
       IN  SetBus([r.bus EXCEPT !.emits = @ + 1, !.emitted = type,
                                !.escaped = r.thrown])

\* eventBus.clear().
BusClear ==
    /\ input # ClearOp(input)
    /\ SetBus(ClearOp(input))

BusNext ==
    \/ \E type \in EventTypes : \E callback \in Behaviours : BusOn(type, callback)
    \/ \E type \in EventTypes : \E callback \in Behaviours : BusOnce(type, callback)
    \/ \E type \in EventTypes : \E callback \in Behaviours : BusOff(type, callback)
    \/ \E n \in 1 .. MaxListeners : BusUnsubscribe(n)
    \/ \E type \in EventTypes : BusEmit(type)
    \/ BusClear

BusSpec == BusInit /\ [][BusNext]_vars

\* -------------------------------------------------------------- properties

\* The slots of the pool pl that are active.
ActiveSlots(pl) == {i \in Ids : pl[i].active}

\* The largest member of a non-empty set of numbers.
MaxOf(S) == CHOOSE m \in S : \A n \in S : n <= m

\* How often v occurs in the sequence q.
Count(q, v) == Cardinality({k \in DOMAIN q : q[k] = v})

\* C1: in every reachable state the pool has exactly the slots made at
\* construction, and the number of active slots and activeCount (the value of
\* getActiveCount()) are at most the capacity.
C1_ActiveWithinCapacity ==
    /\ DOMAIN pool = Ids
    /\ Cardinality(ActiveSlots(pool)) <= MAX_PARTICLES
    /\ activeCount <= MAX_PARTICLES

\* The pool is full after the last update and the latest spawn was turned down.
C1_FullAfterUpdates ==
    /\ activeCount = MAX_PARTICLES
    /\ ActiveSlots(pool) = Ids
    /\ ret = Null
    /\ calls.update = MaxUpdates

\* C2: when every slot is active, spawn(config) returns null and changes nothing:
\* every slot keeps all its fields and activeCount is still the capacity.
C2_FullPoolSpawnReturnsNull ==
    ActiveSlots(pool) = Ids =>
        /\ activeCount = MAX_PARTICLES
        /\ \A config \in SpawnConfigs \cup {NoConfig} : \A rnd \in SpawnDraws :
              LET st == SpawnOp(PoolState, config, rnd)
              IN  st.ret = Null /\ st.pool = pool /\ st.activeCount = MAX_PARTICLES

\* Before any update, a spawn on the full pool has returned null.
C2_SpawnTurnedDown ==
    /\ ActiveSlots(pool) = Ids
    /\ activeCount = MAX_PARTICLES
    /\ ret = Null
    /\ calls.update = 0
    /\ frame.frameCount = 0

\* C3: an active particle has life L = maxLife > 0 and has so far been aged by
\* less than L; a ParticleManager.update (of a frame, or called directly) leaves
\* an active particle active exactly if age, the sum of min(deltaTime, 0.1) over
\* the updates since its spawn, this one included, is still below L.
C3_ExpiresWhenAgeReachesLife ==
    [][/\ \A i \in Ids : pool[i].active => pool[i].maxLife > 0 /\ age[i] < pool[i].maxLife
       /\ (frame.pc = "particles" \/ calls'.update # calls.update) =>
             \A i \in Ids : pool[i].active =>
                 pool'[i].active <=> (age'[i] < pool[i].maxLife)]_vars

\* An update has just released a particle whose applied time reached its life
\* exactly, and kept another one whose applied time is still short of its life.
C3_ReleasedAtLife ==
    /\ calls.update > 0
    /\ \E i \in Ids : ~pool[i].active /\ age[i] = pool[i].maxLife
    /\ \E j \in Ids : pool[j].active /\ 0 < age[j] /\ age[j] < pool[j].maxLife

\* C4: for a slot that is active before and after a step, life is lowered by
\* exactly min(delta, 0.1) by ParticleManager.update and is left alone by every
\* other step (PhysicsSystem.update, shake, ConstellationSystem.update,
\* applyForce, the spawn of another slot).
C4_LifeLoweredOnlyByUpdate ==
    [][\A i \in Ids : pool[i].active /\ pool'[i].active =>
          pool'[i].life = IF frame.pc = "particles"
                          THEN pool[i].life - Min(frame.delta, DtCap)
                          ELSE pool[i].life]_vars

\* After shake and applyForce, a stalled frame has aged a surviving particle by
\* the cap.
C4_AgedByCap ==
    /\ calls.shake = 1
    /\ calls.applyForce = 1
    /\ frame.pc = "render"
    /\ frame.delta = StallDelta
    /\ \E i \in Ids : pool[i].active /\ pool[i].life = pool[i].maxLife - DtCap

\* C5: the slots a step activates are the inactive slots with the smallest ids,
\* and the id returned by the latest spawn of the step is the largest of them
\* (null only if the pool ran full).
C5_SmallestFreeSlotFirst ==
    [][LET new == {i \in Ids : ~pool[i].active /\ pool'[i].active}
       IN  new # {} =>
              /\ \A i \in new : \A j \in Ids : (j < i /\ ~pool[j].active) => j \in new
              /\ ret' \in {Null, Some(MaxOf(new))}
              /\ ret' = Null => ActiveSlots(pool') = Ids]_vars

\* Slot 0 has been released and handed out again while slot 1 stayed active.
C5_SlotReused ==
    /\ ret = Some(0)
    /\ pool[0].active /\ age[0] = 0
    /\ pool[1].active /\ age[1] > 0

\* C6: clearAll() leaves no slot active, activeCount 0 and getActive() empty, and
\* clearAll() applied to that result changes nothing.
C6_ClearAllIdempotent ==
    LET once == ClearAllOp(PoolState)
    IN  /\ ActiveSlots(once.pool) = {}
        /\ once.activeCount = 0
        /\ getActive(once.pool) = <<>>
        /\ ClearAllOp(once) = once

\* Before any update a used pool has been emptied, which only clearAll() can do.
C6_Cleared ==
    /\ calls.update = 0
    /\ frame.frameCount = 0
    /\ pool # InitialPool
    /\ ActiveSlots(pool) = {}
    /\ activeCount = 0

\* C7: an elapsed time above 0.1 gives ParticleManager.update and
\* PhysicsSystem.update exactly the result of 0.1; a surviving particle is aged by
\* at most 0.1 and moved, on every axis, by at most 0.1 times the velocity the
\* update integrates.
C7_StallEqualsCap ==
    \A d \in {DtCap + 1, StallDelta} :
        LET st == UpdateOp(PoolState, d, frame.phase, reducedMotion)
        IN  /\ st = UpdateOp(PoolState, DtCap, frame.phase, reducedMotion)
            /\ PhysicsPool(physics, pool, d, reducedMotion)
                   = PhysicsPool(physics, pool, DtCap, reducedMotion)
            /\ PhysicsTime(physics, d, reducedMotion)
                   = PhysicsTime(physics, DtCap, reducedMotion)
            /\ \A i \in Ids : pool[i].active /\ st.pool[i].active =>
                  LET w == VAdd(pool[i].velocity, VMulDt(pool[i].acceleration, DtCap))
                  IN  /\ pool[i].life - st.pool[i].life <= DtCap
                      /\ \A k \in 1 .. 3 :
                            Abs(st.pool[i].position[k] - pool[i].position[k]) * OneSecond
                                <= Abs(w[k]) * DtCap

\* A stalled frame has aged a particle by the cap and moved it from the origin by
\* less than one unit.
C7_StalledFrameMoved ==
    /\ frame.pc = "constellation"
    /\ frame.delta = StallDelta
    /\ \E i \in Ids :
          /\ pool[i].active
          /\ age[i] = DtCap
          /\ pool[i].life = pool[i].maxLife - DtCap
          /\ pool[i].position[1] \in 1 .. (Unit - 1)

\* The connections of the constellation are those of the pool as it is now: each
\* emitted line joins two active particles at their present positions, lies within
\* the connection distance, and below the cap no pair in reach is left out.
GraphOfPool ==
    LET cs == constellation
        pairs == {{cs.emitted[k][1], cs.emitted[k][2]} : k \in DOMAIN cs.emitted}
        d == cs.connectionDistance
    IN  /\ cs.connectionCount = Len(cs.emitted)
        /\ \A k \in DOMAIN cs.emitted :
              LET a == cs.emitted[k][1]
                  b == cs.emitted[k][2]
              IN  /\ pool[a].active /\ pool[b].active
                  /\ cs.lines[k].a = pool[a].position
                  /\ cs.lines[k].b = pool[b].position
                  /\ distanceSquared(pool[a].position, pool[b].position) <= d * d
        /\ (~reducedMotion /\ cs.connectionCount < cs.maxConnections) =>
              \A i, j \in ActiveSlots(pool) :
                  (i < j /\ distanceSquared(pool[i].position, pool[j].position) <= d * d)
                      => {i, j} \in pairs

\* C8: PhysicsSystem.update moves no particle; a particle that stays active is
\* moved only by ParticleManager.update, after PhysicsSystem.update of the same
\* frame has returned; the constellation is updated only after
\* ParticleManager.update of the same frame has returned, and when it returns its
\* connections are those of the pool as it is then.
C8_AccumulateIntegrateConnect ==
    [][/\ frame.pc = "physics" => \A i \in Ids : pool'[i].position = pool[i].position
       /\ (\E i \in Ids : /\ pool[i].active /\ pool'[i].active
                          /\ pool'[i].position # pool[i].position)
             => frame.pc = "particles" /\ Count(frame.done, "physics") = 1
       /\ constellation' # constellation
             => frame.pc = "constellation" /\ Count(frame.done, "particles") = 1
       /\ frame'.pc = "render" => GraphOfPool']_vars

\* The constellation step has joined a particle that this frame moved away from
\* the origin to its neighbour.
C8_ConnectedAfterMove ==
    /\ frame.pc = "render"
    /\ constellation.connectionCount = 1
    /\ constellation.emitted = <<<<0, 1>>>>
    /\ constellation.lines[1].a = pool[0].position
    /\ pool[0].position[1] > 0
    /\ age[0] > 0

\* C9: for every query point p and every id, getNearby(p) holds the id at least
\* as often as it was inserted at a position whose distance to p is at most the
\* cell size.
C9_NearbyHasAllWithinCell ==
    \A p \in HashPoints : \A id \in {inserted[k].id : k \in DOMAIN inserted} :
        Count(getNearby(spatialHash, p), id)
            >= Cardinality({k \in DOMAIN inserted :
                              /\ inserted[k].id = id
                              /\ distanceSquared(inserted[k].position, p)
                                     <= spatialHash.cellSize * spatialHash.cellSize})

\* A query at the origin has returned the one particle inserted, which lies in
\* the cell below.
C9_FoundAcrossCells ==
    /\ Len(inserted) = 1
    /\ inserted[1].position = <<-1, 0, 0>>
    /\ nearby.point = Origin
    /\ nearby.ids = <<inserted[1].id>>

\* The unordered pairs of ids of the array particles that lie within distance d.
QualifyingPairs(particles, d) ==
    {{particles[x[1]].id, particles[x[2]].id} :
        x \in {y \in (DOMAIN particles) \X (DOMAIN particles) :
                 /\ y[1] < y[2]
                 /\ distanceSquared(particles[y[1]].position, particles[y[2]].position)
                        <= d * d}}

\* The connection count of a fresh system with connection distance d after one
\* update of the particles at the positions at.
ConnectionsOf(at, d) ==
    ConstellationUpdateOp(InitialConstellation(d, MaxConnections), NewSpatialHash(d),
                          ParticleArray(at), 100, FALSE).cs.connectionCount

\* C10: with reduced motion off and fewer than maxConnections pairs within the
\* connection distance, update emits every such unordered pair of its input once,
\* no other pair and no particle with itself; the particles at (0,0,0) and (1,0,0)
\* give 1 connection with distance 2.0 and none with distance 0.5.
C10_OneConnectionPerPairInReach ==
    LET q == QualifyingPairs(input.particles, input.connectionDistance)
        e == constellation.emitted
    IN  /\ (~reducedMotion /\ Cardinality(q) < constellation.maxConnections) =>
              /\ constellation.connectionCount = Cardinality(q)
              /\ constellation.drawRange = 2 * Cardinality(q)
              /\ Len(e) = Cardinality(q)
              /\ \A k \in DOMAIN e : e[k][1] # e[k][2] /\ {e[k][1], e[k][2]} \in q
              /\ \A k, l \in DOMAIN e :
                    k # l => {e[k][1], e[k][2]} # {e[l][1], e[l][2]}
        /\ ConnectionsOf(<<Origin, OneAlongX>>, 2 * Unit) = 1
        /\ ConnectionsOf(<<Origin, OneAlongX>>, Unit \div 2) = 0

\* An update of the particles at (0,0,0) and (1,0,0) with distance 2.0 has emitted
\* their one connection.
C10_PairConnected ==
    /\ ~reducedMotion
    /\ input.connectionDistance = 2 * Unit
    /\ Len(input.particles) = 2
    /\ input.particles[1].position = Origin
    /\ input.particles[2].position = OneAlongX
    /\ constellation.connectionCount = 1
    /\ constellation.emitted = <<<<0, 1>>>>

\* C11: after every update of the ConstellationSystem the connection count lies in
\* 0 .. maxConnections and counts the addConnection calls of that update alone (it
\* restarts from 0), the k-th call writes the six floats from index 6 * (k - 1),
\* all inside the buffers of maxConnections * 6 floats, and the draw range is the
\* 2 * connectionCount vertices written.
C11_ConnectionsWithinBuffers ==
    LET cs == constellation
        bufferFloats == cs.maxConnections * 2 * 3
    IN  /\ cs.connectionCount \in 0 .. cs.maxConnections
        /\ cs.connectionCount = Len(cs.emitted)
        /\ \A k \in DOMAIN cs.emitted :
              6 * (k - 1) >= 0 /\ 6 * (k - 1) + 5 < bufferFloats
        /\ cs.drawRange = 2 * cs.connectionCount
        /\ Len(cs.lines) = cs.maxConnections

\* An update whose input has more pairs within the connection distance than the
\* buffers hold has stopped at maxConnections connections.
C11_StoppedAtCapacity ==
    /\ ~reducedMotion
    /\ Cardinality(QualifyingPairs(input.particles, input.connectionDistance))
          > constellation.maxConnections
    /\ constellation.connectionCount = constellation.maxConnections
    /\ constellation.drawRange = 2 * constellation.maxConnections

AfterPhysics == PhysicsPool(physics, pool, frame.delta, reducedMotion)

\* The pool after physics.update(delta) and particleManager.update(delta, phase).
AfterFrame ==
    UpdateOp([pool |-> AfterPhysics, activeCount |-> activeCount, ret |-> ret],
             frame.delta, frame.phase, reducedMotion).pool

\* The slots that are active when the frame starts and still active after it.
Survivors == {i \in Ids : pool[i].active /\ AfterFrame[i].active}

\* A frame in which both PhysicsSystem.update and the integration run.
FrameRuns == frame.pc = "physics" /\ PhysicsRuns(physics, reducedMotion)

\* C13 as stated: velocity' = (velocity + a * dt) * damping and then
\* position' = position + velocity' * dt, a the accumulator at integration.
C13_DampedAfterAcceleration ==
    FrameRuns =>
       \A i \in Survivors :
          LET dt == Min(frame.delta, DtCap)
              a == AfterPhysics[i].acceleration
              v == VPercent(VAdd(pool[i].velocity, VMulDt(a, dt)),
                            physics.config.damping)
          IN  /\ AfterFrame[i].velocity = v
              /\ AfterFrame[i].position = VAdd(pool[i].position, VMulDt(v, dt))

\* C13, amended: the damping comes first.  With a the accumulator at integration,
\* u = velocity * damping + a * dt and position' = position + u * dt; velocity' is
\* u for a particle without targetPosition and
\* (u + (targetPosition - position') * 0.02) * 0.95 for one with it.
C13_DampedBeforeAcceleration ==
    FrameRuns =>
       \A i \in Survivors :
          LET dt == Min(frame.delta, DtCap)
              a == AfterPhysics[i].acceleration
              u == VAdd(VPercent(pool[i].velocity, physics.config.damping),
                        VMulDt(a, dt))
              x == VAdd(pool[i].position, VMulDt(u, dt))
          IN  /\ AfterFrame[i].position = x
              /\ AfterFrame[i].velocity =
                    IF IsSome(pool[i].targetPosition)
                    THEN VPercent(VAdd(u, VPercent(VSub(pool[i].targetPosition[1], x),
                                                   PoolSpringPercent)),
                                  PoolSpringDamping)
                    ELSE u

\* A frame has integrated a moving particle whose accumulator held an applied
\* force: the velocity it was damped to, the force and the position show in the
\* state after particleManager.update.
C13_IntegratedAppliedForce ==
    /\ frame.pc = "constellation"
    /\ PhysicsRuns(physics, reducedMotion)
    /\ calls.applyForce > 0
    /\ \E i \in Ids :
          /\ pool[i].active
          /\ pool[i].velocity[1] > 0
          /\ pool[i].velocity[2] > 0
          /\ pool[i].position[1] > 0
          /\ pool[i].position[2] > 0

\* C14: in one frame the velocity of every active particle is multiplied by one
\* damping factor, that of PhysicsSystem.update, with or without a targetPosition,
\* and a targetPosition acts through the accumulator alone: the velocity after
\* the frame is velocity * damping + a * dt, a the accumulator at integration.
C14_DampedOncePerFrame ==
    FrameRuns =>
       \A i \in Survivors :
          AfterFrame[i].velocity =
             VAdd(VPercent(pool[i].velocity, physics.config.damping),
                  VMulDt(AfterPhysics[i].acceleration, Min(frame.delta, DtCap)))

\* C15 as stated: while the PhysicsSystem is disabled by setEnabled(false) (reduced
\* motion is off: nothing else has disabled it), no step of a frame changes the
\* position, velocity, accumulator or life of an active particle, or the
\* simulation time.
C15_DisabledFrameChangesNothing ==
    [][(~physics.config.enabled /\ ~reducedMotion /\ frame.pc # "idle") =>
          /\ physics'.time = physics.time
          /\ \A i \in Ids : pool[i].active =>
                /\ pool'[i].position = pool[i].position
                /\ pool'[i].velocity = pool[i].velocity
                /\ pool'[i].acceleration = pool[i].acceleration
                /\ pool'[i].life = pool[i].life]_vars

\* C15, amended: while the PhysicsSystem is disabled, physics.update changes no
\* particle and no step of the frame changes the simulation time; the frame's
\* particleManager.update still lowers the life of every active particle by the
\* clamped delta, releases those that reach 0 and, with reduced motion off, moves
\* the others by velocity + accumulator * dt and zeroes their accumulator.
C15_DisabledFrameStillAgesAndMoves ==
    [][(~physics.config.enabled /\ frame.pc # "idle") =>
          /\ physics'.time = physics.time
          /\ frame.pc = "physics" => pool' = pool
          /\ frame.pc = "particles" =>
                \A i \in Ids : pool[i].active =>
                   LET dt == Min(frame.delta, DtCap)
                       u == VAdd(pool[i].velocity, VMulDt(pool[i].acceleration, dt))
                   IN  /\ pool'[i].active = (pool[i].life - dt > 0)
                       /\ pool'[i].active => pool'[i].life = pool[i].life - dt
                       /\ (pool'[i].active /\ ~reducedMotion) =>
                             /\ pool'[i].position = VAdd(pool[i].position, VMulDt(u, dt))
                             /\ pool'[i].acceleration = Zero3
                       /\ (pool'[i].active /\ reducedMotion) =>
                             /\ pool'[i].position = pool[i].position
                             /\ pool'[i].velocity = pool[i].velocity]_vars

\* A frame of a PhysicsSystem disabled by setEnabled(false), with reduced motion
\* off, has aged and moved a particle while the simulation time stayed 0.
C15_MovedWhileDisabled ==
    /\ ~physics.config.enabled
    /\ ~reducedMotion
    /\ physics.time = 0
    /\ frame.pc = "constellation"
    /\ \E i \in Ids :
          /\ pool[i].active
          /\ pool[i].life < pool[i].maxLife
          /\ pool[i].position[1] > 0
          /\ pool[i].velocity = <<10 * Unit, 0, 0>>

\* The distance between the position and the center of the call, and whether it
\* is below 0.001.
ActualDistance == Length(VSub(input.arguments.center, input.arguments.position))

ActualBelowEpsilon == ActualDistance * 1000 < input.arguments.unit

\* C16: calculateMagneticForce returns the zero vector whenever the distance
\* between position and attractor is below 0.001, whatever minDistance and
\* maxDistance are.
C16_MagneticZeroBelowEpsilon ==
    (input.called = "calculateMagneticForce" /\ ActualBelowEpsilon) =>
       input.force = Zero3

\* C17: calculateGravityForce returns the zero vector for every falloff type when
\* the distance between position and center is below 0.001.
C17_GravityZeroBelowEpsilon ==
    (input.called = "calculateGravityForce" /\ ActualBelowEpsilon) =>
       input.force = Zero3

\* calculateGravityForce was called 'quadratic' at a distance of 0.0005 and
\* returned the zero vector.
C17_ZeroAtHalfEpsilon ==
    /\ input.called = "calculateGravityForce"
    /\ input.arguments.falloffType = "quadratic"
    /\ ActualDistance > 0
    /\ ActualBelowEpsilon
    /\ input.force = Zero3

\* C18: at a distance d of 0.001 or more calculateGravityForce returns the
\* direction from the position to the center, normalized, times strength for
\* 'constant', strength / d for 'linear' and strength / d^2 for 'quadratic'; with
\* strength 1 and 'quadratic' the magnitude is 1.0 at d = 1 and 0.25 at d = 2.
C18_GravityFalloff ==
    (input.called = "calculateGravityForce" /\ ~ActualBelowEpsilon) =>
       LET a == input.arguments
           d == ActualDistance
           toCenter == VSub(a.center, a.position)
           magnitude == CASE a.falloffType = "constant" -> a.strength
                          [] a.falloffType = "linear" -> TDiv(a.strength * a.unit, d)
                          [] a.falloffType = "quadratic" ->
                               TDiv(a.strength * a.unit * a.unit, d * d)
       IN  /\ \A k \in 1 .. 3 : input.force[k] = TDiv(toCenter[k] * magnitude, d)
           /\ (a.falloffType = "quadratic" /\ a.strength = a.unit /\ d = a.unit) =>
                 Length(input.force) = a.unit
           /\ (a.falloffType = "quadratic" /\ a.strength = a.unit /\ d = 2 * a.unit) =>
                 Length(input.force) = a.unit \div 4

\* calculateGravityForce with strength 1 and 'quadratic' has returned a force of
\* 0.25 toward the center for the position at distance 2.
C18_QuarterAtTwo ==
    /\ input.called = "calculateGravityForce"
    /\ input.arguments.unit = Unit
    /\ input.arguments.falloffType = "quadratic"
    /\ input.arguments.strength = Unit
    /\ input.arguments.position = <<0, 2 * Unit, 0>>
    /\ input.arguments.center = Zero3
    /\ input.force = <<0, -(Unit \div 4), 0>>

\* The sum of the vectors of a sequence.
RECURSIVE VSum(_)
VSum(q) == IF q = <<>> THEN Zero3 ELSE VAdd(Head(q), VSum(Tail(q)))

\* What each well of the map adds for a particle at position, by the rule of C19.
WellContributions(position) ==
    [k \in DOMAIN physics.gravityWells |->
       LET well == physics.gravityWells[k]
       IN  IF well.active /\ Length(VSub(position, well.position)) < well.radius
           THEN calculateGravityForce(position, well.position, well.strength,
                                      well.falloff)
           ELSE Zero3]

\* C19: PhysicsSystem.update adds to the accumulator of an active particle the
\* forces that do not come from wells and, for each well, its gravity force if
\* the well is active and the particle is at a distance strictly less than its
\* radius, and nothing otherwise (an inactive well, a particle at or beyond the
\* radius, a radius of 0).
C19_WellsActWithinRadius ==
    [][(frame.pc = "physics" /\ PhysicsRuns(physics, reducedMotion)) =>
          \A i \in Ids : pool[i].active =>
             pool'[i].acceleration =
                VAdd(pool[i].acceleration,
                VAdd(TotalForce([physics EXCEPT !.gravityWells = <<>>], pool[i],
                                physics'.time),
                     VSum(WellContributions(pool[i].position))))]_vars

\* physics.update has run for a particle at the origin with an active well of
\* radius 0 at the origin and an active well of radius 1 at distance 1: the
\* accumulator holds less than either well's strength.
C19_NothingAtRadius ==
    /\ frame.pc = "cursor"
    /\ PhysicsRuns(physics, reducedMotion)
    /\ \E k \in DOMAIN physics.gravityWells :
          LET well == physics.gravityWells[k]
          IN  well.active /\ well.radius = 0 /\ well.position = Origin
    /\ \E k \in DOMAIN physics.gravityWells :
          LET well == physics.gravityWells[k]
          IN  well.active /\ well.radius = Unit /\ well.position = OneAlongX
    /\ \E i \in Ids :
          /\ pool[i].active
          /\ pool[i].position = Origin
          /\ Length(pool[i].acceleration) < Unit

\* C20: the wells of the map, their fields and their order stay as they are in
\* every step of a frame (physics.update among them), in shake and in spawn: the
\* map changes only in removeGravityWell, clearGravityWells, setGravityWellActive,
\* addGravityWell and configureForChapter, the calls between frames that touch
\* neither the particles nor the frame.
C20_WellsPersistAcrossFrames ==
    [][(frame' # frame \/ calls' # calls \/ pool' # pool) =>
          physics'.gravityWells = physics.gravityWells]_vars

\* The well added as "near" with radius 2 is in the map, active, at the end of a
\* frame in which physics.update ran on an active particle, after a shake.
C20_WellKeptThroughFrame ==
    /\ frame.pc = "render"
    /\ PhysicsRuns(physics, reducedMotion)
    /\ calls.shake > 0
    /\ activeCount > 0
    /\ \E k \in DOMAIN physics.gravityWells :
          physics.gravityWells[k] =
             [id |-> "near", position |-> OneAlongX, strength |-> 2 * Unit,
              radius |-> 2 * Unit, falloff |-> "linear", active |-> TRUE]

\* What the cursor adds for a particle at position, by the rule of C21: toward
\* the cursor with magnitude strength / d^2, d the distance kept within
\* [0.2, magneticRadius], and the opposite vector when repel is on.
CursorContribution(position) ==
    LET toCursor == VSub(physics.cursorPosition, position)
        d == clamp(Length(toCursor), Unit \div 5, physics.config.magneticRadius)
        attract == NormalizeTimes(toCursor,
                     TDiv(physics.config.magneticStrength * Unit * Unit, d * d))
    IN  IF physics.config.magneticCursor /\ physics.cursorActive
           /\ Length(VSub(position, physics.cursorPosition))
                 < physics.config.magneticRadius
        THEN IF physics.cursorRepel THEN VNeg(attract) ELSE attract
        ELSE Zero3

\* C21: PhysicsSystem.update adds to the accumulator of an active particle the
\* forces that do not come from the cursor and, exactly when magneticCursor is
\* configured on, the cursor is active and the particle is at a distance below
\* magneticRadius, the inverse-square cursor force: toward the cursor when repel
\* is off, the opposite vector of the same magnitude when repel is on.
C21_CursorActsWithinRadius ==
    [][(frame.pc = "physics" /\ PhysicsRuns(physics, reducedMotion)) =>
          \A i \in Ids : pool[i].active =>
             pool'[i].acceleration =
                VAdd(pool[i].acceleration,
                VAdd(TotalForce([physics EXCEPT !.cursorActive = FALSE], pool[i],
                                physics'.time),
                     CursorContribution(pool[i].position)))]_vars

\* physics.update has run with the cursor active at the origin and repel on, for
\* a particle one unit away and one at the magnetic radius: the first is pushed
\* away along x by about the magnetic strength, the second by nothing.
C21_RepelledWithinRadius ==
    /\ frame.pc = "cursor"
    /\ PhysicsRuns(physics, reducedMotion)
    /\ physics.config.magneticCursor /\ physics.cursorActive /\ physics.cursorRepel
    /\ physics.cursorPosition = Origin
    /\ \E i, j \in Ids :
          /\ pool[i].active /\ pool[i].position = OneAlongX
          /\ pool[i].acceleration[1] > physics.config.magneticStrength - 5
          /\ pool[j].active /\ pool[j].position = AtCursorRadius
          /\ Abs(pool[j].acceleration[1]) < 5

\* C22: after a ParticleManager.update (of a frame, or called directly with the
\* default breathingPhase 1) every particle that stays active has
\* size = baseSize * min(5r, 1) * (1 - 0.5 * min(5(1 - r), 1)) * breathingPhase,
\* r = life / maxLife with the life as lowered by this update.
C22_SizeFollowsLifeRatio ==
    [][(frame.pc = "particles" \/ calls'.update # calls.update) =>
          \A i \in Ids : (pool[i].active /\ pool'[i].active) =>
             LET phase == IF frame.pc = "particles" THEN frame.phase ELSE 100
                 r == TDiv(pool'[i].life * 100, pool'[i].maxLife)
                 fadeIn == IF 5 * r < 100 THEN 5 * r ELSE 100
                 fadeOut == IF 5 * (100 - r) < 100 THEN 5 * (100 - r) ELSE 100
             IN  pool'[i].size =
                    TDiv(pool[i].baseSize * fadeIn * (200 - fadeOut) * phase,
                         100 * 200 * 100)]_vars

\* Updates have brought a particle of seven ticks to its last tick: it has faded
\* to less than half its base size.
C22_FadedNearEnd ==
    /\ \E i \in Ids :
          /\ pool[i].active
          /\ pool[i].maxLife = OneSecond \div 3 + 1
          /\ pool[i].life = 1
          /\ pool[i].size > 0
          /\ 2 * pool[i].size < pool[i].baseSize
    /\ \E j \in Ids :
          /\ pool[j].active
          /\ pool[j].life * 5 > pool[j].maxLife * 4
          /\ pool[j].life < pool[j].maxLife
          /\ 2 * pool[j].size > pool[j].baseSize

\* C23: shake(intensity), here with intensity 2.0, adds to the velocity of every
\* active particle one delta with components in [-intensity / 2, intensity / 2]
\* and changes nothing else: positions, lives, accumulators, active flags,
\* activeCount and every inactive slot stay.  The steps of a frame add nothing
\* random: physics.update multiplies the velocity by the damping,
\* particleManager.update adds accumulator * dt (and the pull of a
\* targetPosition), and the other steps leave the velocity alone.
C23_ShakeIsOneImpulse ==
    [][/\ calls'.shake # calls.shake =>
             /\ activeCount' = activeCount
             /\ \A i \in Ids :
                   IF pool[i].active
                   THEN /\ pool'[i] = [pool[i] EXCEPT !.velocity = pool'[i].velocity]
                        /\ \A k \in 1 .. 3 :
                              Abs(pool'[i].velocity[k] - pool[i].velocity[k]) * 2 <= 200
                   ELSE pool'[i] = pool[i]
       /\ (calls'.shake = calls.shake /\ frame.pc # "idle") =>
             \A i \in Ids : (pool[i].active /\ pool'[i].active) =>
                LET dt == Min(frame.delta, DtCap)
                    u == VAdd(pool[i].velocity, VMulDt(pool[i].acceleration, dt))
                IN  pool'[i].velocity =
                       IF frame.pc = "physics" /\ PhysicsRuns(physics, reducedMotion)
                       THEN VPercent(pool[i].velocity, physics.config.damping)
                       ELSE IF frame.pc = "particles" /\ ~reducedMotion
                       THEN IF IsSome(pool[i].targetPosition)
                            THEN VPercent(
                                   VAdd(u, VPercent(VSub(pool[i].targetPosition[1],
                                                         pool'[i].position),
                                                    PoolSpringPercent)),
                                   PoolSpringDamping)
                            ELSE u
                       ELSE pool[i].velocity]_vars

\* A shake has pushed a particle along -z, a frame has followed and damped that
\* velocity once, and the other slot is still as the constructor made it.
C23_ShakenThenDamped ==
    /\ calls.shake = 1
    /\ frame.pc = "render"
    /\ PhysicsRuns(physics, reducedMotion)
    /\ \E i \in Ids :
          /\ pool[i].active
          /\ pool[i].velocity[3] = Percent(-(200 \div 4), physics.config.damping)
    /\ \E j \in Ids : pool[j] = InitialParticle(j)

\* C24: the handler of 'particle:spawn' with count k (0 to above the capacity)
\* runs to its end from every state, whatever the pool holds, and leaves
\* getActiveCount() = min(capacity, count before + k), as many active slots, and
\* every particle that was active as it was.
C24_SpawnEventCapsSilently ==
    \A count \in 0 .. (MAX_PARTICLES + SpawnOver) :
       \A color \in {Null, Some(COLONY_COLORS("grove"))} :
          \A rnds \in [1 .. count -> SpawnDraws] :
             LET st == SpawnLoop(PoolState,
                                 [k \in 1 .. count |->
                                    [NoConfig EXCEPT !.color = color]],
                                 rnds)
                 capped == IF activeCount + count < MAX_PARTICLES
                           THEN activeCount + count ELSE MAX_PARTICLES
             IN  /\ st.activeCount = capped
                 /\ Cardinality(ActiveSlots(st.pool)) = capped
                 /\ \A i \in Ids : pool[i].active => st.pool[i] = pool[i]

\* An event asking for more particles than the pool holds has filled every slot
\* with its colour, and its last spawn was turned down.
C24_EventFilledPool ==
    /\ activeCount = MAX_PARTICLES
    /\ \A i \in Ids : pool[i].active /\ pool[i].color = COLONY_COLORS("grove")
                         /\ age[i] = 0
    /\ ret = Null

\* Intensities handed to burst in C25, in hundredths: -1, -0.05, 0, 0.05, 0.1, 1.
BurstIntensities == {-100, -5, 0, 5, 10, 100}

\* C25: from every state burst(intensity, center) calls spawn
\* max(0, min(floor(10 * intensity), capacity - activeCount)) times and every
\* call succeeds: that many slots turn active, each at the origin point (center,
\* or (0, 1.6, -2) without one), activeCount grows by as many and stays within
\* the capacity, and the particles that were active stay as they were.
C25_BurstWithinFreeSlots ==
    \A intensity \in BurstIntensities : \A center \in {Null, Some(OneAlongX)} :
       LET count == BurstCount(intensity, activeCount)
           free == MAX_PARTICLES - activeCount
           wanted == IF intensity \div 10 < free THEN intensity \div 10 ELSE free
           expected == IF wanted > 0 THEN wanted ELSE 0
           origin == IF center = Null THEN BurstOrigin ELSE center[1]
       IN  \A draws \in [1 .. count -> BurstDraws] :
              LET st == BurstOp(PoolState, intensity, center, draws)
                  new == {i \in Ids : ~pool[i].active /\ st.pool[i].active}
              IN  /\ Cardinality(DOMAIN draws) = expected
                  /\ Cardinality(new) = expected
                  /\ \A i \in new : st.pool[i].position = origin
                  /\ st.activeCount = activeCount + expected
                  /\ st.activeCount <= MAX_PARTICLES
                  /\ expected > 0 => st.ret # Null
                  /\ \A i \in Ids : pool[i].active => st.pool[i] = pool[i]

\* A burst of intensity 1 on a pool with one free slot has spawned one particle,
\* at the default origin, beside the particle that was there.
C25_BurstFilledLastSlot ==
    /\ activeCount = MAX_PARTICLES
    /\ ret = Some(MAX_PARTICLES - 1)
    /\ pool[MAX_PARTICLES - 1].active
    /\ pool[MAX_PARTICLES - 1].position = BurstOrigin
    /\ pool[MAX_PARTICLES - 1].velocity = <<0, -15, 0>>
    /\ age[MAX_PARTICLES - 1] = 0
    /\ \A i \in 0 .. (MAX_PARTICLES - 2) :
          pool[i].active /\ pool[i].position # BurstOrigin /\ age[i] > 0

\* The pairs (particle, candidate) update looks at, in the order it looks at them:
\* the particles from the k-th on in input order, the candidates of each in the
\* order getNearby returns them from the hash h.
RECURSIVE CandidatesFrom(_, _, _)
CandidatesFrom(particles, h, k) ==
    IF k > Len(particles) THEN <<>>
    ELSE LET ids == getNearby(h, particles[k].position)
         IN  [n \in DOMAIN ids |-> <<particles[k].id, ids[n]>>]
                 \o CandidatesFrom(particles, h, k + 1)

\* The qualifying pairs of the latest update in discovery order: the candidates
\* that join two different particles within the connection distance, each
\* unordered pair at its first appearance only.
DiscoveredPairs ==
    LET particles == input.particles
        d == input.connectionDistance
        c == CandidatesFrom(particles, HashInsertAll(NewSpatialHash(d), particles), 1)
        at(id) == particles[CHOOSE k \in DOMAIN particles : particles[k].id = id].position
        first(n) == \A m \in 1 .. (n - 1) : {c[m][1], c[m][2]} # {c[n][1], c[n][2]}
        kept == SelectSeq([n \in DOMAIN c |-> n],
                          LAMBDA n : /\ c[n][1] # c[n][2]
                                     /\ first(n)
                                     /\ distanceSquared(at(c[n][1]), at(c[n][2])) <= d * d)
    IN  [n \in DOMAIN kept |-> c[kept[n]]]

\* C26: when more than maxConnections pairs of the input qualify (reduced motion
\* off), update emits exactly maxConnections connections: the first
\* maxConnections qualifying pairs in discovery order, in that order, each in
\* the buffer line of its rank.
C26_FirstDiscoveredPairsKept ==
    LET cs == constellation
    IN  (/\ ~reducedMotion
         /\ Cardinality(QualifyingPairs(input.particles, input.connectionDistance))
               > cs.maxConnections) =>
           /\ cs.connectionCount = cs.maxConnections
           /\ cs.emitted = SubSeq(DiscoveredPairs, 1, cs.maxConnections)
           /\ \A k \in 1 .. cs.maxConnections :
                 LET a == CHOOSE n \in DOMAIN input.particles :
                             input.particles[n].id = DiscoveredPairs[k][1]
                     b == CHOOSE n \in DOMAIN input.particles :
                             input.particles[n].id = DiscoveredPairs[k][2]
                 IN  /\ cs.lines[k].a = input.particles[a].position
                     /\ cs.lines[k].b = input.particles[b].position

\* Three particles in reach of each other were handed to a system with room for
\* two connections: the pair of the particle in the cell below, found first by
\* getNearby, and the pair of the first two were emitted, the third pair was not.
C26_ThirdPairDropped ==
    /\ ~reducedMotion
    /\ input.connectionDistance = ConnectionDistance
    /\ Len(input.particles) = 3
    /\ \A k \in 1 .. 3 : input.particles[k].position = ConstellationPoints[k]
    /\ constellation.emitted = <<<<0, 2>>, <<0, 1>>>>
    /\ Len(DiscoveredPairs) = 3

\* The configs of C27: the direct spawn configs, the empty config, and configs
\* that supply a life of 0 and a size of 0.
SuppliedConfigs ==
    SpawnConfigs \cup {NoConfig, [NoConfig EXCEPT !.life = Some(0)],
                        [NoConfig EXCEPT !.size = Some(0), !.colony = Some("forge")]}

\* The particle spawn(config) leaves in its slot is the one C27 describes: every
\* supplied value taken, the draws rnd for the omitted ones.
InitialisedFrom(p, config, rnd) ==
    /\ p.active
    /\ p.life = p.maxLife
    /\ p.size = p.baseSize
    /\ p.acceleration = Zero3
    /\ p.targetPosition = config.targetPosition
    /\ p.colony = config.colony
    /\ p.maxLife = IF IsSome(config.life) THEN config.life[1] ELSE rnd.life
    /\ p.baseSize = IF IsSome(config.size) THEN config.size[1] ELSE rnd.size
    /\ p.position = IF IsSome(config.position) THEN config.position[1] ELSE rnd.position
    /\ p.velocity = IF IsSome(config.velocity) THEN config.velocity[1] ELSE rnd.velocity
    /\ p.color = IF IsSome(config.color) THEN config.color[1]
                 ELSE IF IsSome(config.colony) THEN COLONY_COLORS(config.colony[1])
                 ELSE COLONY_COLORS("void")

\* C27: from every state a successful spawn(config) leaves in the slot it takes
\* the id the slot had and, for every other field, the value C27 gives: active,
\* life = maxLife, size = baseSize, zero accumulator, targetPosition and colony
\* of the config or null, each supplied value of life, size, position, velocity
\* and color as supplied, and a default only for an omitted field.
C27_SpawnTakesSuppliedValues ==
    \A config \in SuppliedConfigs : \A rnd \in SpawnDraws :
       LET st == SpawnOp(PoolState, config, rnd)
       IN  st.ret # Null =>
              /\ st.pool[st.ret[1]].id = pool[st.ret[1]].id
              /\ InitialisedFrom(st.pool[st.ret[1]], config, rnd)

\* The fields of a particle that C28 says only spawn sets.
SetAtSpawn(p) == <<p.color, p.baseSize, p.maxLife, p.colony, p.id>>

\* C28: physics.update, setCursorPosition, particleManager.update (the release
\* of an expired particle included), constellations.update, the end of the frame
\* and shake leave color, baseSize, maxLife, colony and id of every slot as they
\* are; a step that changes one of them in a slot is a spawn into that slot, which
\* was inactive: a direct spawn between frames or the spawn of mouseTrail.update.
C28_IdentityFieldsSetBySpawnOnly ==
    [][\A i \in Ids :
          /\ (frame.pc \in {"physics", "cursor", "particles", "constellation", "render"}
                 \/ calls'.shake # calls.shake)
                => SetAtSpawn(pool'[i]) = SetAtSpawn(pool[i])
          /\ SetAtSpawn(pool'[i]) # SetAtSpawn(pool[i])
                => /\ ~pool[i].active /\ pool'[i].active
                   /\ ret' = Some(i)
                   /\ frame.pc \in {"idle", "trail"}]_vars

\* After a shake a frame has run to its end: one particle was released by it and
\* another lives on, each with the colour, colony, base size and maximal life of
\* its spawn.
C28_KeptThroughShakeAndFrame ==
    /\ calls.shake = 1
    /\ frame.pc = "render"
    /\ \E i, j \in Ids :
          /\ ~pool[i].active
          /\ age[i] > 0
          /\ pool[i].color = COLONY_COLORS("flow")
          /\ pool[i].colony = Some("flow")
          /\ pool[i].maxLife = DtCap
          /\ pool[j].active
          /\ age[j] > 0
          /\ pool[j].color = COLONY_COLORS("spark")
          /\ pool[j].baseSize = Unit
          /\ pool[j].size < Unit

\* C29: in every reachable state the particle in slot i of the pool has id = i,
\* so the ids are pairwise distinct, no step changes one, and the particles
\* getActive() returns have different ids.
C29_IdIsSlotIndex ==
    /\ \A i \in Ids : pool[i].id = i
    /\ \A i, j \in Ids : i # j => pool[i].id # pool[j].id
    /\ \A k, l \in DOMAIN getActive(pool) :
          k # l => getActive(pool)[k].id # getActive(pool)[l].id

\* The last slot holds a particle that has been updated, and slot 0, released
\* meanwhile, has been handed out again: both are active under the ids of their
\* slots.
C29_ReusedSlotKeepsId ==
    /\ ret = Some(0)
    /\ calls.update > 0
    /\ pool[0].active /\ age[0] = 0 /\ pool[0].id = 0
    /\ pool[MAX_PARTICLES - 1].active /\ age[MAX_PARTICLES - 1] > 0
    /\ pool[MAX_PARTICLES - 1].id = MAX_PARTICLES - 1
    /\ Len(getActive(pool)) = MAX_PARTICLES

\* C30: after the constructor and after every setConnectionDistance and update
\* the cell size of the SpatialHash is the connection distance in force, and
\* with the particles of the latest input inserted, getNearby at a particle
\* returns every particle within the connection distance of it.
C30_CellSizeIsConnectionDistance ==
    LET d == constellation.connectionDistance
        particles == input.particles
        h == HashInsertAll(HashClear(spatialHash), particles)
    IN  /\ spatialHash.cellSize = d
        /\ \A k, l \in DOMAIN particles :
              distanceSquared(particles[k].position, particles[l].position) <= d * d
                 => \E n \in DOMAIN getNearby(h, particles[k].position) :
                       getNearby(h, particles[k].position)[n] = particles[l].id

\* After setConnectionDistance(0.5) an update has joined the particle at the
\* origin and the one 0.4 units away in the cell below.
C30_FoundAfterDistanceChange ==
    /\ ~reducedMotion
    /\ constellation.connectionDistance = Unit \div 2
    /\ input.connectionDistance = Unit \div 2
    /\ spatialHash.cellSize = Unit \div 2
    /\ Len(input.particles) = 2
    /\ input.particles[1].position = Origin
    /\ input.particles[2].position = ConstellationPoints[3]
    /\ Cardinality(DOMAIN spatialHash.cells) = 2
    /\ constellation.emitted = <<<<0, 1>>>>

\* The ids held by the cell key of the hash h (none if the key is not in use).
CellIds(h, key) == IF key \in DOMAIN h.cells THEN h.cells[key] ELSE <<>>

\* C31: the constellation step of a frame rebuilds the index from the particles
\* getActive() returns: afterwards (reduced motion off) the hash holds every
\* active particle once, in the cell of its present position, and no other id;
\* every connection emitted joins two slots that are active in that frame.
C31_IndexRebuiltFromActive ==
    [][frame.pc = "constellation" =>
          /\ \A k \in DOMAIN constellation'.emitted :
                /\ pool'[constellation'.emitted[k][1]].active
                /\ pool'[constellation'.emitted[k][2]].active
          /\ ~reducedMotion =>
                /\ \A i \in Ids :
                      Count(CellIds(spatialHash', getKey(spatialHash', pool'[i].position)), i)
                          = IF pool'[i].active THEN 1 ELSE 0
                /\ \A key \in DOMAIN spatialHash'.cells :
                      \A n \in DOMAIN spatialHash'.cells[key] :
                         LET i == spatialHash'.cells[key][n]
                         IN  pool'[i].active
                             /\ key = getKey(spatialHash', pool'[i].position)]_vars

\* The second frame has updated the constellation while a slot used before, now
\* inactive, still lies within the connection distance of an active particle:
\* no connection was emitted and the hash holds the active particle alone.
C31_StaleSlotNotJoined ==
    /\ ~reducedMotion
    /\ frame.pc = "render"
    /\ frame.frameCount = 1
    /\ constellation.emitted = <<>>
    /\ \E i, j \in Ids :
          /\ pool[i].active
          /\ ~pool[j].active
          /\ pool[j] # InitialParticle(j)
          /\ distanceSquared(pool[i].position, pool[j].position)
                <= constellation.connectionDistance * constellation.connectionDistance
          /\ \A key \in DOMAIN spatialHash.cells : spatialHash.cells[key] = <<i>>

\* C32: with the MouseTrail as the only source of particles, at most trailLength
\* particles are active at any time.
C32_TrailWithinLength ==
    Cardinality(ActiveSlots(pool)) <= trail.config.trailLength

\* C33: in every reachable state, whatever the order of spawn, burst, update,
\* clearAll and the event handlers before it, getActiveCount() is the number of
\* active slots, which is the length of getActive().
C33_CountIsActiveSlots ==
    /\ activeCount = Cardinality(ActiveSlots(pool))
    /\ activeCount = Len(getActive(pool))

\* A frame's update has released slot 0 while slot 1, spawned later, lives on.
C33_CountedAfterExpiry ==
    /\ frame.frameCount > 0
    /\ ~pool[0].active /\ pool[0] # InitialParticle(0)
    /\ pool[1].active
    /\ activeCount = 1

\* C34: with every spawn given a positive life, in every reachable state (so
\* after every completed update) an active particle has 0 < life <= maxLife and
\* an inactive slot has life 0, and getActive(), which the physics and the
\* constellation step of a frame read, returns no particle with life <= 0.
C34_LifeWithinMaxLife ==
    /\ \A i \in Ids :
          IF pool[i].active
          THEN 0 < pool[i].life /\ pool[i].life <= pool[i].maxLife
          ELSE pool[i].life = 0
    /\ \A k \in DOMAIN getActive(pool) : getActive(pool)[k].life > 0

\* The particle update of a running frame has released slot 0 and aged slot 1,
\* which the constellation step is about to read.
C34_AgedAndReleased ==
    /\ frame.pc = "constellation"
    /\ ~pool[0].active /\ pool[0] # InitialParticle(0)
    /\ pool[1].active /\ pool[1].life < pool[1].maxLife

\* C35: the cursor contributes exactly while cursorActive holds (C21), so the
\* claim is: a frame's setCursorPosition changes nothing of the PhysicsSystem but
\* cursorPosition, and cursorActive, once false, turns true only in a step taken
\* between frames with the frame loop untouched, which of the steps there only
\* the 'physics:magnetic' handler with active = true can be.
C35_CursorOffUntilActivated ==
    [][/\ frame.pc = "cursor" =>
             physics' = [physics EXCEPT !.cursorPosition = physics'.cursorPosition]
       /\ (~physics.cursorActive /\ physics'.cursorActive) =>
             (frame.pc = "idle" /\ frame' = frame)]_vars

\* C36: with prefers-reduced-motion set, the PhysicsSystem is disabled in every
\* reachable state, setEnabled(true) leaves it as it is, and the physics.update of
\* a frame leaves every particle as it was.
C36_DisabledUnderReducedMotion ==
    [][reducedMotion =>
          /\ ~physics.config.enabled /\ ~physics'.config.enabled
          /\ SetEnabledOp(physics, TRUE, reducedMotion) = physics
          /\ frame.pc = "physics" => pool' = pool]_vars

\* Under reduced motion the physics.update of a frame has returned, with an
\* active particle holding an applied force in its accumulator.
C36_UpdateSkippedUnderReducedMotion ==
    /\ reducedMotion
    /\ frame.pc = "cursor"
    /\ ~physics.config.enabled
    /\ \E i \in Ids : pool[i].active /\ pool[i].acceleration # Zero3

\* C37: in every reachable state, configureForChapter(c) leaves the gravity wells
\* and the global gravity that configureForChapter(c) leaves on a PhysicsSystem
\* just constructed.
C37_ChapterConfigurationFromChapterOnly ==
    \A c \in Chapters :
       LET after == ConfigureForChapterOp(physics, c)
           fresh == ConfigureForChapterOp(InitialPhysics(reducedMotion), c)
       IN  /\ after.gravityWells = fresh.gravityWells
           /\ after.config.globalGravity = fresh.config.globalGravity

\* The listeners of the sequence q of Set places or of invocations, in order.
ListenersOf(q, depth) ==
    LET kept == SelectSeq(q, LAMBDA c : c.depth = depth)
    IN  [k \in DOMAIN kept |-> kept[k].listener]

\* The members of the settled Set places that an emit calls with its own event:
\* every callback subscribed with on(), and every once() wrapper that no callback
\* ahead of it takes out of the Set first (by calling the unsubscribe functions,
\* or by a nested emit, which runs the wrapper with the nested event).
CalledWithEvent(places) ==
    LET Ahead(k) == \E j \in 1 .. (k - 1) :
                       places[j][1].callback \in {"emits", "cancels"}
        at == [k \in DOMAIN places |-> [listener |-> places[k][1],
                                        depth |-> IF places[k][1].wrapped = 0
                                                     \/ ~Ahead(k)
                                                  THEN 0 ELSE 1]]
    IN  ListenersOf(at, 0)

\* C38: an emit from outside any callback returns normally, and it has called
\* with its event, once each and in the order of subscription, the callbacks
\* subscribed to the type that stay subscribed until their turn, whether or not
\* callbacks among them throw.
C38_EmitDeliversPastThrow ==
    [][input'.emits # input.emits =>
          /\ ~input'.escaped
          /\ ListenersOf(input'.invoked, 0) =
                CalledWithEvent(input.listeners[input'.emitted])]_vars

\* The latest emit returned normally after calling a callback that throws and,
\* next, a callback subscribed after it.
C38_CalledAfterThrow ==
    /\ input.emits > 0
    /\ ~input.escaped
    /\ \E k \in DOMAIN input.invoked :
          /\ k + 1 \in DOMAIN input.invoked
          /\ input.invoked[k].listener.callback = "throws"
          /\ input.invoked[k].depth = 0
          /\ input.invoked[k + 1].listener.callback = "returns"
          /\ input.invoked[k + 1].depth = 0

\* C39: in every reachable state each callback registered with once() has been
\* called at most once, over all the emits so far and the emits made from inside
\* callbacks, and none was called after its unsubscribe function had been called.
C39_OnceFiresAtMostOnce ==
    /\ \A n \in DOMAIN input.onces : input.onces[n].fired <= 1
    /\ ~input.late

\* A once() callback that emits from inside has run once, its nested emit has
\* called other callbacks, and another once() callback of the type was
\* unsubscribed before its turn and has not run.
C39_FiredOnceCancelledNever ==
    /\ input.emits > 0
    /\ \E k \in DOMAIN input.invoked : input.invoked[k].depth > 0
    /\ \E n, m \in DOMAIN input.onces :
          /\ input.onces[n].callback = "emits" /\ input.onces[n].fired = 1
          /\ input.onces[n].type = input.emitted
          /\ input.onces[m].type = input.emitted
          /\ input.onces[m].cancelled /\ input.onces[m].fired = 0

====
